---------------------------- MODULE Spec2Model ----------------------------
(***************************************************************************)
(* Model of the OData service of rechat/theagency-db:                      *)
(*   - the OAuth2 token service and bearer middleware (odata/auth.js,      *)
(*     kept in src/unnamed/part_004) over the PostgreSQL token store       *)
(*     (odata/tokenStore.js), with the periodic cleanup sweeper;           *)
(*   - the $filter lexer and compiler, the clause parsers and the query    *)
(*     builder (odata/parser.js).                                          *)
(*                                                                         *)
(* Text is modelled as sequences of one-character strings, so that what    *)
(* the parser copies into the SQL text can be observed.                    *)
(***************************************************************************)
EXTENDS Integers, Sequences, FiniteSets, TLC

(***************************************************************************)
(* Bounds of the model.                                                    *)
(***************************************************************************)
MaxTokens == 2     \* values generateToken() can still return
MaxTicks == 2      \* how often the clock advances
MaxWords == 4      \* words an input text of a query option is made of
MaxOver == 1       \* how far a total lies from skip + top
MaxRows == 2       \* rows in the recordset of a list

(***************************************************************************)
(* Program constants (auth.js).                                            *)
(***************************************************************************)
TOKEN_EXPIRY == 3600
REFRESH_TOKEN_EXPIRY == 86400 * 30

VARIABLES
  CLIENT_ID,       \* process.env.OAUTH_CLIENT_ID ("undefined" when unset)
  CLIENT_SECRET,   \* process.env.OAUTH_CLIENT_SECRET
  pool,            \* tokenStore.js: the pg pool, "null" until init()
  tokens,          \* table oauth_tokens: access_token -> row
  refreshTokens,   \* table oauth_refresh_tokens: refresh_token -> row
  now,             \* Date.now(), counted in seconds (the code's ms / 1000)
  ticks,           \* number of clock advances so far
  issued,          \* values generateToken() has returned (or left in the tables)
  req,             \* the request being served: position and locals of its handler
  sweeper,         \* the setInterval cleanup callback: position and its `now`
  expiredSeen,     \* access tokens the middleware answered "Token has expired"
  call,            \* the resource request whose query is compiled
  plan,            \* what buildQuery returned or threw for it
  link,            \* what the next-link closure of the plan returned
  handler,         \* the list or get handler of the request: position and locals
  queries,         \* the db.query calls of the request, in the order they were made
  res,             \* the response sent for the request
  boot             \* the start-up of the process: its two promises, listening or exited

authVars == <<CLIENT_ID, CLIENT_SECRET, pool, tokens, refreshTokens, now, ticks,
              issued, req, sweeper, expiredSeen, boot>>
driverVars == <<handler, queries, res>>
vars == <<authVars, call, plan, link, driverVars>>

(***************************************************************************)
(* Text and JavaScript values.  A string is a sequence of characters; a    *)
(* JavaScript value is tagged with its type.                               *)
(***************************************************************************)
JsUndefined == [t |-> "undefined", s |-> <<>>, n |-> 0]
JsNaN == [t |-> "NaN", s |-> <<>>, n |-> 0]
JsString(s) == [t |-> "string", s |-> s, n |-> 0]
JsNumber(n) == [t |-> "number", s |-> <<>>, n |-> n]

\* ToBoolean: undefined, NaN, 0 and '' are falsy
Truthy(v) ==
  CASE v.t = "string" -> v.s # <<>>
    [] v.t = "number" -> v.n # 0
    [] OTHER -> FALSE

Digits == {"0", "1", "2", "3", "4", "5", "6", "7", "8", "9"}
LowerLetters == <<"a", "b", "c", "d", "e", "f", "g", "h", "i", "j", "k", "l", "m", "n", "o", "p", "q", "r", "s", "t", "u", "v", "w", "x", "y", "z">>
UpperLetters == <<"A", "B", "C", "D", "E", "F", "G", "H", "I", "J", "K", "L", "M", "N", "O", "P", "Q", "R", "S", "T", "U", "V", "W", "X", "Y", "Z">>
Letters == {LowerLetters[k] : k \in 1..26} \cup {UpperLetters[k] : k \in 1..26}
WhiteSpace == {" ", "\t", "\n", "\r"}

DigitValue(c) == CHOOSE d \in 0..9 : <<"0", "1", "2", "3", "4", "5", "6", "7", "8", "9">>[d + 1] = c

\* String.prototype.toLowerCase
ToLowerChar(c) ==
  IF \E k \in 1..26 : UpperLetters[k] = c
    THEN LowerLetters[CHOOSE k \in 1..26 : UpperLetters[k] = c]
    ELSE c
toLowerCase(s) == [k \in 1..Len(s) |-> ToLowerChar(s[k])]

RECURSIVE Join(_, _)
\* Array.prototype.join(sep)
Join(parts, sep) ==
  IF parts = <<>> THEN <<>>
  ELSE IF Len(parts) = 1 THEN parts[1]
  ELSE parts[1] \o sep \o Join(Tail(parts), sep)

RECURSIVE NatToString(_)
NatToString(n) ==
  IF n < 10 THEN <<<<"0", "1", "2", "3", "4", "5", "6", "7", "8", "9">>[n + 1]>>
  ELSE NatToString(n \div 10) \o <<<<"0", "1", "2", "3", "4", "5", "6", "7", "8", "9">>[(n % 10) + 1]>>
\* Number.prototype.toString / template interpolation of an integer
IntToString(n) == IF n < 0 THEN <<"-">> \o NatToString(0 - n) ELSE NatToString(n)

RECURSIVE ScanWhile(_, _, _)
\* advance i while the character at i is in the class (1-based positions)
ScanWhile(s, i, class) ==
  IF i <= Len(s) /\ s[i] \in class THEN ScanWhile(s, i + 1, class) ELSE i

RECURSIVE DigitsValue(_, _, _)
DigitsValue(s, i, acc) ==
  IF i <= Len(s) /\ s[i] \in Digits
    THEN DigitsValue(s, i + 1, acc * 10 + DigitValue(s[i]))
    ELSE acc

\* The decimal prefix that parseInt (radix 10) and parseFloat read: leading
\* white space, an optional sign, digits; NaN when there is no digit.  (A
\* fraction, an exponent or a 0x prefix does not occur in the inputs drawn.)
ParseDecimalPrefix(s) ==
  LET i == ScanWhile(s, 1, WhiteSpace)
      signed == i <= Len(s) /\ s[i] \in {"+", "-"}
      j == IF signed THEN i + 1 ELSE i
  IN IF j <= Len(s) /\ s[j] \in Digits
       THEN JsNumber(IF signed /\ s[i] = "-" THEN 0 - DigitsValue(s, j, 0)
                                             ELSE DigitsValue(s, j, 0))
       ELSE JsNaN
\* parseInt(v): v is converted to a string first; undefined gives NaN
parseInt(v) ==
  CASE v.t = "string" -> ParseDecimalPrefix(v.s)
    [] v.t = "number" -> v
    [] OTHER -> JsNaN
parseFloat(s) == ParseDecimalPrefix(s)

(***************************************************************************)
(* parser.js: tokenizeFilter                                               *)
(***************************************************************************)
Token(type, value) == [type |-> type, value |-> value]
NoError == [prefix |-> <<>>, msg |-> <<>>, arg |-> <<>>]
Error(msg, arg) == [prefix |-> <<>>, msg |-> msg, arg |-> arg]

NumberStart == Digits \cup {".", "-"}
DatetimeChars == Digits \cup {".", ":", "-", "T", "Z", "+"}
NumberChars == Digits \cup {".", "e", "E", "+", "-"}
WordStart == Letters \cup {"_"}
WordChars == Letters \cup Digits \cup {"_"}

\* /^\d{4}-\d{2}-\d{2}/.test(filter.slice(i))
IsDatetime(s, i) ==
  /\ i + 9 <= Len(s)
  /\ \A k \in {0, 1, 2, 3, 5, 6, 8, 9} : s[i + k] \in Digits
  /\ s[i + 4] = "-" /\ s[i + 7] = "-"

RECURSIVE ScanString(_, _, _)
\* the inner loop of a string literal, from the character after the opening
\* quote: '' is an escaped quote, a single ' or the end of the input ends it
ScanString(s, i, value) ==
  IF i > Len(s) THEN [value |-> value, i |-> i]
  ELSE IF s[i] = "'" /\ i + 1 <= Len(s) /\ s[i + 1] = "'"
    THEN ScanString(s, i + 2, Append(value, "'"))
  ELSE IF s[i] = "'" THEN [value |-> value, i |-> i]
  ELSE ScanString(s, i + 1, Append(value, s[i]))

\* the classification of a word by its lower-cased spelling
WordToken(word) ==
  LET lowerWord == toLowerCase(word) IN
    IF lowerWord \in {<<"e", "q">>, <<"n", "e">>, <<"g", "t">>, <<"g", "e">>, <<"l", "t">>, <<"l", "e">>}
      THEN Token("operator", JsString(lowerWord))
    ELSE IF lowerWord \in {<<"a", "n", "d">>, <<"o", "r">>, <<"n", "o", "t">>}
      THEN Token("logical", JsString(lowerWord))
    ELSE IF lowerWord \in {<<"c", "o", "n", "t", "a", "i", "n", "s">>, <<"s", "t", "a", "r", "t", "s", "w", "i", "t", "h">>, <<"e", "n", "d", "s", "w", "i", "t", "h">>}
      THEN Token("function", JsString(lowerWord))
    ELSE IF lowerWord \in {<<"n", "u", "l", "l">>, <<"t", "r", "u", "e">>, <<"f", "a", "l", "s", "e">>}
      THEN Token("literal", JsString(lowerWord))
    ELSE Token("identifier", JsString(word))

RECURSIVE Lex(_, _, _)
Lex(s, i, toks) ==
  IF i > Len(s) THEN [ok |-> TRUE, tokens |-> toks, err |-> NoError]
  ELSE IF s[i] \in WhiteSpace THEN Lex(s, i + 1, toks)
  ELSE IF s[i] = "'"
    THEN LET r == ScanString(s, i + 1, <<>>)
         IN Lex(s, r.i + 1, Append(toks, Token("string", JsString(r.value))))
  ELSE IF s[i] \in NumberStart
    THEN IF IsDatetime(s, i)
           THEN LET j == ScanWhile(s, i, DatetimeChars)
                IN Lex(s, j, Append(toks,
                         Token("datetime", JsString(SubSeq(s, i, j - 1)))))
           ELSE LET j == ScanWhile(s, i, NumberChars)
                IN Lex(s, j, Append(toks,
                         Token("number", parseFloat(SubSeq(s, i, j - 1)))))
  ELSE IF s[i] \in {"(", ")"}
    THEN Lex(s, i + 1, Append(toks, Token("paren", JsString(<<s[i]>>))))
  ELSE IF s[i] = ","
    THEN Lex(s, i + 1, Append(toks, Token("comma", JsString(<<",">>))))
  ELSE IF s[i] \in WordStart
    THEN LET j == ScanWhile(s, i, WordChars)
         IN Lex(s, j, Append(toks, WordToken(SubSeq(s, i, j - 1))))
  ELSE [ok |-> FALSE, tokens |-> <<>>,
        err |-> Error(<<"U", "n", "e", "x", "p", "e", "c", "t", "e", "d", " ", "c", "h", "a", "r", "a", "c", "t", "e", "r", " ", "i", "n", " ", "f", "i", "l", "t", "e", "r", ":", " ">>, <<s[i]>>)]

tokenizeFilter(filter) == Lex(filter, 1, <<>>)

(***************************************************************************)
(* resources/property.js: the field map, RESO name -> backend column, in   *)
(* declaration order                                                       *)
(***************************************************************************)
TABLE == <<"i", "d", "c", "_", "a", "g", "y", ".", "A", "G", "Y", "_", "C", "M", "N", "C", "M", "N", "_", "V", "W">>
KEY_FIELD == <<"L", "i", "s", "t", "i", "n", "g", "K", "e", "y">>
fieldMap ==
  << [key |-> <<"L", "i", "s", "t", "i", "n", "g", "K", "e", "y">>,
      column |-> <<"I", "D", "C", "P", "R", "O", "P", "E", "R", "T", "Y", "I", "D">>],
     [key |-> <<"L", "i", "s", "t", "i", "n", "g", "I", "d">>,
      column |-> <<"I", "D", "C", "M", "L", "S", "N", "U", "M", "B", "E", "R">>],
     [key |-> <<"O", "r", "i", "g", "i", "n", "a", "t", "i", "n", "g", "S", "y", "s", "t", "e", "m", "N", "a", "m", "e">>,
      column |-> <<"M", "L", "S", "B", "O", "A", "R", "D">>],
     [key |-> <<"L", "i", "s", "t", "P", "r", "i", "c", "e">>,
      column |-> <<"I", "D", "C", "L", "I", "S", "T", "P", "R", "I", "C", "E">>],
     [key |-> <<"S", "t", "a", "n", "d", "a", "r", "d", "S", "t", "a", "t", "u", "s">>,
      column |-> <<"I", "D", "C", "S", "T", "A", "T", "U", "S">>],
     [key |-> <<"L", "i", "s", "t", "i", "n", "g", "C", "o", "n", "t", "r", "a", "c", "t", "D", "a", "t", "e">>,
      column |-> <<"I", "D", "C", "L", "I", "S", "T", "D", "A", "T", "E">>],
     [key |-> <<"P", "r", "o", "p", "e", "r", "t", "y", "T", "y", "p", "e">>,
      column |-> <<"P", "R", "O", "P", "E", "R", "T", "Y", "T", "Y", "P", "E">>],
     [key |-> <<"Y", "e", "a", "r", "B", "u", "i", "l", "t">>,
      column |-> <<"Y", "E", "A", "R", "B", "U", "I", "L", "T">>],
     [key |-> <<"B", "e", "d", "r", "o", "o", "m", "s", "T", "o", "t", "a", "l">>,
      column |-> <<"B", "E", "D", "S">>],
     [key |-> <<"B", "a", "t", "h", "r", "o", "o", "m", "s", "T", "o", "t", "a", "l", "I", "n", "t", "e", "g", "e", "r">>,
      column |-> <<"B", "A", "T", "H", "S", "T", "O", "T", "A", "L">>],
     [key |-> <<"L", "i", "v", "i", "n", "g", "A", "r", "e", "a">>,
      column |-> <<"S", "Q", "F", "T">>],
     [key |-> <<"L", "o", "t", "S", "i", "z", "e", "A", "r", "e", "a">>,
      column |-> <<"L", "O", "T", "S", "I", "Z", "E">>],
     [key |-> <<"L", "o", "t", "S", "i", "z", "e", "A", "c", "r", "e", "s">>,
      column |-> <<"A", "C", "R", "E", "S">>],
     [key |-> <<"U", "n", "p", "a", "r", "s", "e", "d", "A", "d", "d", "r", "e", "s", "s">>,
      column |-> <<"I", "D", "C", "A", "D", "D", "R", "E", "S", "S">>],
     [key |-> <<"S", "t", "r", "e", "e", "t", "N", "u", "m", "b", "e", "r">>,
      column |-> <<"S", "T", "R", "E", "E", "T", "N", "U", "M", "B", "E", "R">>],
     [key |-> <<"S", "t", "r", "e", "e", "t", "N", "a", "m", "e">>,
      column |-> <<"S", "T", "R", "E", "E", "T", "N", "A", "M", "E">>],
     [key |-> <<"C", "i", "t", "y">>,
      column |-> <<"C", "I", "T", "Y">>],
     [key |-> <<"S", "t", "a", "t", "e", "O", "r", "P", "r", "o", "v", "i", "n", "c", "e">>,
      column |-> <<"S", "T", "A", "T", "E">>],
     [key |-> <<"P", "o", "s", "t", "a", "l", "C", "o", "d", "e">>,
      column |-> <<"Z", "I", "P", "C", "O", "D", "E">>],
     [key |-> <<"C", "o", "u", "n", "t", "y", "O", "r", "P", "a", "r", "i", "s", "h">>,
      column |-> <<"C", "O", "U", "N", "T", "Y">>],
     [key |-> <<"C", "o", "u", "n", "t", "r", "y">>,
      column |-> <<"C", "O", "U", "N", "T", "R", "Y">>],
     [key |-> <<"L", "a", "t", "i", "t", "u", "d", "e">>,
      column |-> <<"I", "D", "C", "L", "A", "T", "I", "T", "U", "D", "E">>],
     [key |-> <<"L", "o", "n", "g", "i", "t", "u", "d", "e">>,
      column |-> <<"I", "D", "C", "L", "O", "N", "G", "I", "T", "U", "D", "E">>],
     [key |-> <<"P", "u", "b", "l", "i", "c", "R", "e", "m", "a", "r", "k", "s">>,
      column |-> <<"I", "D", "C", "R", "E", "M", "A", "R", "K", "S">>],
     [key |-> <<"L", "i", "s", "t", "A", "g", "e", "n", "t", "K", "e", "y">>,
      column |-> <<"I", "D", "C", "L", "I", "S", "T", "A", "G", "E", "N", "T", "K", "E", "Y">>],
     [key |-> <<"L", "i", "s", "t", "O", "f", "f", "i", "c", "e", "K", "e", "y">>,
      column |-> <<"I", "D", "C", "L", "I", "S", "T", "O", "F", "F", "I", "C", "E", "K", "E", "Y">>],
     [key |-> <<"L", "i", "s", "t", "i", "n", "g", "U", "R", "L">>,
      column |-> <<"L", "I", "S", "T", "I", "N", "G", "D", "E", "T", "A", "I", "L", "U", "R", "L">>],
     [key |-> <<"M", "o", "d", "i", "f", "i", "c", "a", "t", "i", "o", "n", "T", "i", "m", "e", "s", "t", "a", "m", "p">>,
      column |-> <<"L", "A", "S", "T", "M", "O", "D", "I", "F", "I", "E", "D">>],
     [key |-> <<"P", "h", "o", "t", "o", "C", "o", "u", "n", "t">>,
      column |-> <<"M", "L", "S", "P", "H", "O", "T", "O", "C", "O", "U", "N", "T">>],
     [key |-> <<"P", "h", "o", "t", "o", "s", "C", "h", "a", "n", "g", "e", "T", "i", "m", "e", "s", "t", "a", "m", "p">>,
      column |-> <<"P", "H", "O", "T", "O", "M", "O", "D", "I", "F", "I", "E", "D", "D", "A", "T", "E">>],
     [key |-> <<"_", "P", "h", "o", "t", "o", "s", "X", "M", "L">>,
      column |-> <<"P", "R", "O", "P", "E", "R", "T", "Y", "P", "H", "O", "T", "O", "S">>] >>

\* Object.values(fieldMap)
Values(map) == [k \in 1..Len(map) |-> map[k].column]
\* new Set(Object.keys(fieldMap)).has(name)
Has(map, name) == \E k \in 1..Len(map) : map[k].key = name
\* fieldMap[name], for a name that is a key
Lookup(map, name) == map[CHOOSE k \in 1..Len(map) : map[k].key = name].column

(***************************************************************************)
(* parser.js: parseFilterTokens                                            *)
(***************************************************************************)
getNextParamName_Mutant(paramIndex) == <<"f", "i", "l", "t", "e", "r">> \o IntToString(paramIndex + 1)
\* `filter${paramIndex++}`
getNextParamName(paramIndex) == <<"f", "i", "l", "t", "e", "r">> \o IntToString(paramIndex)

opMap(op) ==
  CASE op = <<"e", "q">> -> <<"=">>
    [] op = <<"n", "e">> -> <<"!", "=">>
    [] op = <<"g", "t">> -> <<">">>
    [] op = <<"g", "e">> -> <<">", "=">>
    [] op = <<"l", "t">> -> <<"<">>
    [] op = <<"l", "e">> -> <<"<", "=">>

\* String.prototype.toUpperCase, on the three logical words
toUpperCase(word) ==
  CASE word = <<"a", "n", "d">> -> <<"A", "N", "D">>
    [] word = <<"o", "r">> -> <<"O", "R">>
    [] word = <<"n", "o", "t">> -> <<"N", "O", "T">>

Param(name, value) == [name |-> name, value |-> value]
Failed(err) == [ok |-> FALSE, sql |-> <<>>, params |-> <<>>, err |-> err]

\* toks[i]?.type and toks[i]?.value, undefined past the end
TypeAt(toks, i) == IF i <= Len(toks) THEN toks[i].type ELSE "undefined"
ValueAt(toks, i) == IF i <= Len(toks) THEN toks[i].value ELSE JsUndefined

\* JSON.stringify(token); only a comma token reaches the final throw
TokenJson(token) == <<"{", "\"", "t", "y", "p", "e", "\"", ":", "\"", "c", "o", "m", "m", "a", "\"", ",", "\"", "v", "a", "l", "u", "e", "\"", ":", "\"", ",", "\"", "}">>

\* the parameter value of a function call: the argument wrapped for LIKE
LikePattern(funcName, value) ==
  CASE funcName = <<"c", "o", "n", "t", "a", "i", "n", "s">> -> <<"%">> \o value \o <<"%">>
    [] funcName = <<"s", "t", "a", "r", "t", "s", "w", "i", "t", "h">> -> value \o <<"%">>
    [] funcName = <<"e", "n", "d", "s", "w", "i", "t", "h">> -> <<"%">> \o value

literalSql_Mutant(paramName, value) == <<"'">> \o value \o <<"'">>
\* what a string, number or datetime token adds to the SQL text: its placeholder
literalSql(paramName, value) == <<"@">> \o paramName

RECURSIVE Walk(_, _, _, _, _, _)
\* the while loop of parseFilterTokens over toks[i..]
Walk(toks, map, i, sql, params, paramIndex) ==
  IF i > Len(toks)
    THEN [ok |-> TRUE, sql |-> sql, params |-> params, err |-> NoError]
  ELSE LET token == toks[i] IN
    IF token.type = "identifier"
      THEN IF ~Has(map, token.value.s)
             THEN Failed(Error(<<"U", "n", "k", "n", "o", "w", "n", " ", "f", "i", "e", "l", "d", ":", " ">>, token.value.s))
             ELSE Walk(toks, map, i + 1, sql \o Lookup(map, token.value.s),
                       params, paramIndex)
    ELSE IF token.type = "operator"
      THEN Walk(toks, map, i + 1, sql \o <<" ">> \o opMap(token.value.s) \o <<" ">>,
                params, paramIndex)
    ELSE IF token.type = "logical"
      THEN Walk(toks, map, i + 1,
                sql \o <<" ">> \o toUpperCase(token.value.s) \o <<" ">>,
                params, paramIndex)
    ELSE IF token.type \in {"string", "number", "datetime"}
      THEN LET paramName == getNextParamName(paramIndex)
           IN Walk(toks, map, i + 1, sql \o literalSql(paramName, token.value.s),
                   Append(params, Param(paramName, token.value)), paramIndex + 1)
    ELSE IF token.type = "literal"
      THEN Walk(toks, map, i + 1,
                sql \o (CASE token.value.s = <<"n", "u", "l", "l">> -> <<"N", "U", "L", "L">>
                          [] token.value.s = <<"t", "r", "u", "e">> -> <<"1">>
                          [] token.value.s = <<"f", "a", "l", "s", "e">> -> <<"0">>),
                params, paramIndex)
    ELSE IF token.type = "function"
      THEN LET funcName == token.value.s IN
        IF TypeAt(toks, i + 1) # "paren" \/ ValueAt(toks, i + 1).s # <<"(">>
          THEN Failed(Error(<<"E", "x", "p", "e", "c", "t", "e", "d", " ", "(", " ", "a", "f", "t", "e", "r", " ">>, funcName))
        ELSE IF TypeAt(toks, i + 2) # "identifier"
          THEN Failed(Error(<<"E", "x", "p", "e", "c", "t", "e", "d", " ", "f", "i", "e", "l", "d", " ", "n", "a", "m", "e", " ", "i", "n", " ">>, funcName \o <<"(", ")">>))
        ELSE IF ~Has(map, toks[i + 2].value.s)
          THEN Failed(Error(<<"U", "n", "k", "n", "o", "w", "n", " ", "f", "i", "e", "l", "d", ":", " ">>, toks[i + 2].value.s))
        ELSE IF TypeAt(toks, i + 3) # "comma"
          THEN Failed(Error(<<"E", "x", "p", "e", "c", "t", "e", "d", " ", "c", "o", "m", "m", "a", " ", "i", "n", " ">>, funcName \o <<"(", ")">>))
        ELSE IF TypeAt(toks, i + 4) # "string"
          THEN Failed(Error(<<"E", "x", "p", "e", "c", "t", "e", "d", " ", "s", "t", "r", "i", "n", "g", " ", "v", "a", "l", "u", "e", " ", "i", "n", " ">>, funcName \o <<"(", ")">>))
        ELSE IF TypeAt(toks, i + 5) # "paren" \/ ValueAt(toks, i + 5).s # <<")">>
          THEN Failed(Error(<<"E", "x", "p", "e", "c", "t", "e", "d", " ", ")", " ", "a", "f", "t", "e", "r", " ">>, funcName))
        ELSE LET paramName == getNextParamName(paramIndex)
                 dbField == Lookup(map, toks[i + 2].value.s)
                 value == toks[i + 4].value.s
             IN Walk(toks, map, i + 6,
                     sql \o dbField \o <<" ", "L", "I", "K", "E", " ", "@">> \o paramName,
                     Append(params,
                            Param(paramName, JsString(LikePattern(funcName, value)))),
                     paramIndex + 1)
    ELSE IF token.type = "paren"
      THEN Walk(toks, map, i + 1, sql \o token.value.s, params, paramIndex)
    ELSE Failed(Error(<<"U", "n", "e", "x", "p", "e", "c", "t", "e", "d", " ", "t", "o", "k", "e", "n", ":", " ">>, TokenJson(token)))

parseFilterTokens(toks, map) == Walk(toks, map, 1, <<>>, <<>>, 0)

\* parseFilter(filter, fieldMap): '' and undefined give the empty fragment;
\* every error is rethrown as 'Invalid $filter: ' + err.message
parseFilter(filter, map) ==
  IF ~Truthy(filter)
    THEN [ok |-> TRUE, sql |-> <<>>, params |-> <<>>, err |-> NoError]
  \* the tokens and the compiled fragment are each computed once
  ELSE CHOOSE compiled \in
         { IF ~lexed.ok
             THEN Failed([lexed.err EXCEPT !.prefix = <<"I", "n", "v", "a", "l", "i", "d", " ", "$", "f", "i", "l", "t", "e", "r", ":", " ">>])
           ELSE (CHOOSE out \in
                   { IF r.ok THEN r
                     ELSE Failed([r.err EXCEPT !.prefix = <<"I", "n", "v", "a", "l", "i", "d", " ", "$", "f", "i", "l", "t", "e", "r", ":", " ">>]) :
                       r \in {parseFilterTokens(lexed.tokens, map)} } : TRUE) :
             lexed \in {tokenizeFilter(filter.s)} } : TRUE

(***************************************************************************)
(* parser.js: parseSelect, parseOrderBy                                    *)
(***************************************************************************)
IndexOf(s, c) == IF \E k \in 1..Len(s) : s[k] = c
                   THEN CHOOSE k \in 1..Len(s) : s[k] = c /\ \A j \in 1..(k - 1) : s[j] # c
                   ELSE 0

RECURSIVE split(_, _)
\* String.prototype.split(','): always at least one part
split(s, c) ==
  CHOOSE parts \in
    { LET k == IndexOf(str, c) IN
        IF k = 0 THEN <<str>>
        ELSE <<SubSeq(str, 1, k - 1)>> \o split(SubSeq(str, k + 1, Len(str)), c) :
          str \in {s} } : TRUE

\* String.prototype.trim
trim(s) ==
  LET i == ScanWhile(s, 1, WhiteSpace) IN
    IF i > Len(s) THEN <<>>
    ELSE SubSeq(s, i, CHOOSE j \in i..Len(s) :
                        /\ s[j] \notin WhiteSpace
                        /\ \A k \in (j + 1)..Len(s) : s[k] \in WhiteSpace)

RECURSIVE splitWhiteSpace(_)
\* String.prototype.split(/\s+/)
splitWhiteSpace(s) ==
  IF \A k \in 1..Len(s) : s[k] \notin WhiteSpace THEN <<s>>
  ELSE LET k == CHOOSE k \in 1..Len(s) :
                  s[k] \in WhiteSpace /\ \A j \in 1..(k - 1) : s[j] \notin WhiteSpace
       IN <<SubSeq(s, 1, k - 1)>> \o
          splitWhiteSpace(SubSeq(s, ScanWhile(s, k, WhiteSpace), Len(s)))

Thrown(err) == [ok |-> FALSE, sql |-> <<>>, err |-> err]
Returned(sql) == [ok |-> TRUE, sql |-> sql, err |-> NoError]

RECURSIVE SelectFields(_, _, _)
\* the for loop of parseSelect: the first field that is not a key throws
SelectFields(fields, map, dbFields) ==
  IF fields = <<>> THEN Returned(dbFields)
  ELSE IF ~Has(map, fields[1])
    THEN Thrown(Error(<<"I", "n", "v", "a", "l", "i", "d", " ", "f", "i", "e", "l", "d", " ", "i", "n", " ", "$", "s", "e", "l", "e", "c", "t", ":", " ">>, fields[1]))
  ELSE SelectFields(Tail(fields), map, Append(dbFields, Lookup(map, fields[1])))

parseSelect_Mutant(select, map) ==
  IF ~Truthy(select) THEN Returned(Join(Values(map), <<",", " ">>)) ELSE Returned(select.s)
\* parseSelect(select, fieldMap)
parseSelect(select, map) ==
  IF ~Truthy(select) THEN Returned(Join(Values(map), <<",", " ">>))
  \* the parts and the columns are each computed once
  ELSE CHOOSE out \in
         { IF ~r.ok THEN r
           ELSE IF Len(r.sql) > 0 THEN Returned(Join(r.sql, <<",", " ">>))
           ELSE Returned(Join(Values(map), <<",", " ">>)) :
             r \in { SelectFields([k \in 1..Len(parts) |-> trim(parts[k])], map, <<>>) :
                       parts \in {split(select.s, ",")} } } : TRUE

\* direction?.toLowerCase() === 'desc' ? 'DESC' : 'ASC'
direction(words) ==
  IF Len(words) >= 2 /\ toLowerCase(words[2]) = <<"d", "e", "s", "c">> THEN <<"D", "E", "S", "C">> ELSE <<"A", "S", "C">>

RECURSIVE OrderByParts(_, _, _)
\* orderby.split(',').map(...): the first field that is not a key throws
OrderByParts(parts, map, done) ==
  IF parts = <<>> THEN Returned(done)
  ELSE LET words == splitWhiteSpace(trim(parts[1]))
           field == words[1]
       IN IF ~Has(map, field)
            THEN Thrown(Error(<<"I", "n", "v", "a", "l", "i", "d", " ", "f", "i", "e", "l", "d", " ", "i", "n", " ", "$", "o", "r", "d", "e", "r", "b", "y", ":", " ">>, field))
            ELSE OrderByParts(Tail(parts), map,
                   Append(done, Lookup(map, field) \o <<" ">> \o direction(words)))

\* parseOrderBy(orderby, fieldMap)
parseOrderBy(orderby, map) ==
  IF ~Truthy(orderby) THEN Returned(<<>>)
  ELSE LET r == OrderByParts(split(orderby.s, ","), map, <<>>)
       IN IF r.ok THEN Returned(Join(r.sql, <<",", " ">>)) ELSE r

(***************************************************************************)
(* parser.js: buildQuery                                                   *)
(***************************************************************************)
Min(a, b) == IF a < b THEN a ELSE b
Max(a, b) == IF a > b THEN a ELSE b

\* x || fallback, for a number x
OrElse(x, fallback) == IF Truthy(x) THEN x.n ELSE fallback

top_Mutant(query) == Max(OrElse(parseInt(query.top), 100), 1)
\* Math.min(Math.max(parseInt(query.$top) || 100, 1), 1000)
top(query) == Min(Max(OrElse(parseInt(query.top), 100), 1), 1000)
\* Math.max(parseInt(query.$skip) || 0, 0)
skip(query) == Max(OrElse(parseInt(query.skip), 0), 0)

\* the query string of a request: each option is a string or undefined
Query(top_, skip_, count, select, filter, orderby) ==
  [top |-> top_, skip |-> skip_, count |-> count, select |-> select,
   filter |-> filter, orderby |-> orderby]
\* the options the resource drivers pass; none of them passes baseWhere
Options(query, keyValue) ==
  [table |-> TABLE, fieldMap |-> fieldMap, query |-> query,
   keyField |-> KEY_FIELD, keyValue |-> keyValue]

NoPlan == [ok |-> FALSE, dataQuery |-> <<>>, hasCount |-> FALSE,
           countQuery |-> <<>>, params |-> <<>>, top |-> 0, skip |-> 0,
           err |-> NoError]
Throw(err) == [NoPlan EXCEPT !.err = err]

whereOf_Mutant(options) ==
  IF Truthy(options.query.filter)
    THEN parseFilter(options.query.filter, options.fieldMap)
  ELSE [ok |-> TRUE,
        sql |-> Lookup(options.fieldMap, options.keyField) \o <<" ", "=", " ", "@", "k", "e", "y", "V", "a", "l", "u", "e">>,
        params |-> <<Param(<<"k", "e", "y", "V", "a", "l", "u", "e">>, options.keyValue)>>,
        err |-> NoError]
\* the WHERE part: the key lookup wins over $filter, which is then not parsed
whereOf(options) ==
  IF Truthy(options.keyValue)
    THEN [ok |-> TRUE,
          sql |-> Lookup(options.fieldMap, options.keyField) \o <<" ", "=", " ", "@", "k", "e", "y", "V", "a", "l", "u", "e">>,
          params |-> <<Param(<<"k", "e", "y", "V", "a", "l", "u", "e">>, options.keyValue)>>,
          err |-> NoError]
  ELSE IF Truthy(options.query.filter)
    THEN parseFilter(options.query.filter, options.fieldMap)
  ELSE [ok |-> TRUE, sql |-> <<>>, params |-> <<>>, err |-> NoError]

\* `WHERE ${whereConditions.join(' AND ')}` or ''
whereClause(conditions) ==
  IF conditions = <<>> THEN <<>> ELSE <<"W", "H", "E", "R", "E", " ">> \o Join(conditions, <<" ", "A", "N", "D", " ">>)

\* orderBy ? `ORDER BY ${orderBy}` : `ORDER BY ${Object.values(fieldMap)[0]}`
orderByClause(orderBy, map) ==
  IF orderBy # <<>> THEN <<"O", "R", "D", "E", "R", " ", "B", "Y", " ">> \o orderBy
  ELSE <<"O", "R", "D", "E", "R", " ", "B", "Y", " ">> \o Values(map)[1]

dataQuery(selectFields, table, where, orderBy, skip_, top_) ==
  <<"\n", " ", " ", " ", " ", "S", "E", "L", "E", "C", "T", " ">> \o selectFields \o
  <<"\n", " ", " ", " ", " ", "F", "R", "O", "M", " ">> \o table \o
  <<"\n", " ", " ", " ", " ">> \o where \o
  <<"\n", " ", " ", " ", " ">> \o orderBy \o
  <<"\n", " ", " ", " ", " ", "O", "F", "F", "S", "E", "T", " ">> \o IntToString(skip_) \o <<" ", "R", "O", "W", "S">> \o
  <<"\n", " ", " ", " ", " ", "F", "E", "T", "C", "H", " ", "N", "E", "X", "T", " ">> \o IntToString(top_) \o <<" ", "R", "O", "W", "S", " ", "O", "N", "L", "Y", "\n", " ", " ">>

countQuery_Mutant(table, where) ==
  <<"\n", " ", " ", " ", " ", "S", "E", "L", "E", "C", "T", " ", "C", "O", "U", "N", "T", "(", "*", ")", " ", "a", "s", " ", "t", "o", "t", "a", "l">> \o
  <<"\n", " ", " ", " ", " ", "F", "R", "O", "M", " ">> \o table \o
  <<"\n", " ", " ", " ", " ">> \o <<"\n", " ", " ">>
countQuery(table, where) ==
  <<"\n", " ", " ", " ", " ", "S", "E", "L", "E", "C", "T", " ", "C", "O", "U", "N", "T", "(", "*", ")", " ", "a", "s", " ", "t", "o", "t", "a", "l">> \o
  <<"\n", " ", " ", " ", " ", "F", "R", "O", "M", " ">> \o table \o
  <<"\n", " ", " ", " ", " ">> \o where \o <<"\n", " ", " ">>

buildQuery(options) ==
  LET query == options.query
      map == options.fieldMap
      count == query.count = JsString(<<"t", "r", "u", "e">>)
  \* the three clauses are each compiled once
  IN CHOOSE built \in
       { LET conditions == IF filter.sql # <<>> THEN <<filter.sql>> ELSE <<>>
             params == IF filter.sql # <<>> \/ Truthy(options.keyValue)
                         THEN filter.params ELSE <<>>
         IN IF ~selectFields.ok THEN Throw(selectFields.err)
            ELSE IF ~filter.ok THEN Throw(filter.err)
            ELSE IF ~orderBy.ok THEN Throw(orderBy.err)
            ELSE [ok |-> TRUE,
                  dataQuery |-> dataQuery(selectFields.sql, options.table,
                                          whereClause(conditions),
                                          orderByClause(orderBy.sql, map),
                                          skip(query), top(query)),
                  hasCount |-> count,
                  countQuery |-> IF count
                                   THEN countQuery(options.table, whereClause(conditions))
                                   ELSE <<>>,
                  params |-> params,
                  top |-> top(query),
                  skip |-> skip(query),
                  err |-> NoError] :
           selectFields \in {parseSelect(query.select, map)},
           filter \in {whereOf(options)},
           orderBy \in {parseOrderBy(query.orderby, map)} } : TRUE

\* one request to a resource route: GET /Property or GET /Property(:key)
Call(route, key, query) == [route |-> route, key |-> key, query |-> query]
NoQuery == Query(JsUndefined, JsUndefined, JsUndefined, JsUndefined, JsUndefined,
                 JsUndefined)
NoCall == Call("none", <<>>, NoQuery)

JsNull == [t |-> "null", s |-> <<>>, n |-> 0]
\* the next-link closure was not called
NoLink == [called |-> FALSE, total |-> 0, url |-> JsNull]

\* the process before `Promise.all([db.connect(), auth.init()])`: the
\* environment, the two promises, the statements of tokenStore.init still to
\* run, whether the server listens, and the exit code
NotStarted ==
  [PG_CONNECTION_STRING |-> "undefined", pc |-> "main", connect |-> "none",
   init |-> "none", awaits |-> 0, settled |-> 0, rejectedFirst |-> "none",
   listening |-> FALSE, exitCode |-> -1]

\* the handler of a resource request: where it stands and its locals
NoHandler == [pc |-> "idle", expansions |-> <<>>, key |-> JsUndefined,
              value |-> <<>>, countResult |-> JsNull, settled |-> 0]
\* no response was sent
Unanswered == [sent |-> FALSE, status |-> 0, context |-> <<>>,
               count |-> JsUndefined, nextLink |-> JsUndefined, value |-> <<>>,
               error |-> [code |-> <<>>, message |-> <<>>]]

(***************************************************************************)
(* The token service.                                                      *)
(***************************************************************************)
Undefined == "undefined"
TokenValues == 0..MaxTokens
ClockSteps == {TOKEN_EXPIRY, REFRESH_TOKEN_EXPIRY}

(***************************************************************************)
(* tokenStore.js: the two tables are maps from the primary key to the row. *)
(***************************************************************************)
EmptyTable == [t \in {} |-> [clientId |-> "", expiresAt |-> 0]]
NoRow == [found |-> FALSE, clientId |-> "", expiresAt |-> 0]

\* INSERT ... ON CONFLICT (token) DO UPDATE SET expires_at = $3
saveToken(table, token, clientId, expiresAt) ==
  IF token \in DOMAIN table
    THEN [table EXCEPT ![token].expiresAt = expiresAt]
    ELSE [t \in DOMAIN table \cup {token} |->
            IF t = token THEN [clientId |-> clientId, expiresAt |-> expiresAt]
                         ELSE table[t]]

\* SELECT client_id, expires_at ... WHERE token = $1; null when no row
getToken(table, token) ==
  IF token \in DOMAIN table
    THEN [found |-> TRUE, clientId |-> table[token].clientId,
          expiresAt |-> table[token].expiresAt]
    ELSE NoRow

deleteToken_Mutant(table, token) == table
\* DELETE ... WHERE token = $1
deleteToken(table, token) ==
  [t \in DOMAIN table \ {token} |-> table[t]]

deleteExpired_Mutant(table, at) ==
  [t \in {u \in DOMAIN table : ~(table[u].expiresAt <= at)} |-> table[t]]
\* DELETE ... WHERE expires_at < $1
deleteExpired(table, at) ==
  [t \in {u \in DOMAIN table : ~(table[u].expiresAt < at)} |-> table[t]]

(***************************************************************************)
(* Request slots.                                                          *)
(***************************************************************************)
NoHeader == [scheme |-> "none", token |-> 0]
NoBody == [grant_type |-> Undefined, client_id |-> Undefined,
           client_secret |-> Undefined, refresh_token |-> -1]
NoResp == [status |-> 0, code |-> "", access_token |-> -1, refresh_token |-> -1,
           token_type |-> "", expires_in |-> 0]
IdleReq == [pc |-> "idle", route |-> "", hdr |-> NoHeader, body |-> NoBody,
            tokenData |-> NoRow, accessToken |-> -1, refreshToken |-> -1,
            accessExpiresAt |-> 0, refreshExpiresAt |-> 0, clientId |-> "",
            queries |-> 0, resp |-> NoResp]

Headers ==
  {NoHeader} \cup
  {[scheme |-> "Basic ", token |-> 0]} \cup
  { [scheme |-> "Bearer ", token |-> t] : t \in TokenValues }
\* urlencoded bodies; a field that is not sent is undefined (-1 for refresh_token)
Bodies ==
  { [NoBody EXCEPT !.grant_type = "client_credentials",
                   !.client_id = c, !.client_secret = s] :
      c \in {"test-client", "wrong-client"}, s \in {"test-secret", "wrong-secret"} }
  \cup { [NoBody EXCEPT !.grant_type = "refresh_token", !.refresh_token = t] :
           t \in {-1} \cup TokenValues }
  \cup { [NoBody EXCEPT !.grant_type = "password",
                        !.client_id = "test-client", !.client_secret = "test-secret"] }
ProtectedRoutes == {"/Property", "/Property(key)", "/Member", "/Member(key)",
                    "/Office", "/Office(key)"}

Err(status, code) == [NoResp EXCEPT !.status = status, !.code = code]
\* res.status(..).json(..): the request is answered; its locals are dropped
Respond(resp) ==
  req' = [IdleReq EXCEPT !.pc = "done", !.hdr = req.hdr, !.body = req.body,
                         !.resp = resp]

(***************************************************************************)
(* auth.js                                                                 *)
(***************************************************************************)
configured == CLIENT_ID # Undefined /\ CLIENT_SECRET # Undefined

\* crypto.randomBytes(32): a value that was never returned before
generateToken == TokenValues \ issued

isExpired_Mutant(tokenData, t) == tokenData.expiresAt <= t
\* tokenData.expiresAt < Date.now()
isExpired(tokenData, t) == tokenData.expiresAt < t

invalidClient_Mutant(body) ==
  body.client_id # CLIENT_ID /\ body.client_secret # CLIENT_SECRET
\* client_id !== CLIENT_ID || client_secret !== CLIENT_SECRET
invalidClient(body) ==
  body.client_id # CLIENT_ID \/ body.client_secret # CLIENT_SECRET

\* middleware(req, res, next), up to its first await
middleware(hdr) ==
  /\ pool = "open"
  /\ req.pc \in {"idle", "done"}
  /\ LET q == [IdleReq EXCEPT !.hdr = hdr] IN
       IF ~configured
         THEN req' = [q EXCEPT !.pc = "driver"]
       ELSE IF hdr.scheme # "Bearer "
         THEN req' = [q EXCEPT !.pc = "done", !.resp = Err(401, "Unauthorized")]
       ELSE req' = [q EXCEPT !.pc = "mwGetToken"]
  /\ UNCHANGED <<call, plan, link, driverVars, boot, CLIENT_ID, CLIENT_SECRET, pool, tokens, refreshTokens, now,
                 ticks, issued, sweeper, expiredSeen>>

\* await tokenStore.getToken(token): the SELECT runs
mwGetToken ==
  /\ req.pc = "mwGetToken"
  /\ req' = [req EXCEPT !.pc = "mwCheck",
                        !.tokenData = getToken(tokens, req.hdr.token)]
  /\ UNCHANGED <<call, plan, link, driverVars, boot, CLIENT_ID, CLIENT_SECRET, pool, tokens, refreshTokens, now,
                 ticks, issued, sweeper, expiredSeen>>

mwCheck_Mutant ==
  /\ req.pc = "mwCheck"
  /\ IF ~req.tokenData.found
       THEN Respond(Err(401, "Unauthorized"))
       ELSE req' = [req EXCEPT !.pc = "driver",
                               !.clientId = req.tokenData.clientId]
  /\ UNCHANGED <<call, plan, link, driverVars, boot, CLIENT_ID, CLIENT_SECRET, pool, tokens, refreshTokens, now,
                 ticks, issued, sweeper, expiredSeen>>
\* middleware after the lookup: unknown -> 401, expired -> delete, else next()
mwCheck ==
  /\ req.pc = "mwCheck"
  /\ IF ~req.tokenData.found
       THEN Respond(Err(401, "Unauthorized"))
     ELSE IF isExpired(req.tokenData, now)
       THEN req' = [req EXCEPT !.pc = "mwDelete"]
     ELSE req' = [req EXCEPT !.pc = "driver",
                             !.clientId = req.tokenData.clientId]
  /\ UNCHANGED <<call, plan, link, driverVars, boot, CLIENT_ID, CLIENT_SECRET, pool, tokens, refreshTokens, now,
                 ticks, issued, sweeper, expiredSeen>>

\* await tokenStore.deleteToken(token): the DELETE runs
mwDelete ==
  /\ req.pc = "mwDelete"
  /\ tokens' = deleteToken(tokens, req.hdr.token)
  /\ req' = [req EXCEPT !.pc = "mwExpired"]
  /\ UNCHANGED <<call, plan, link, driverVars, boot, CLIENT_ID, CLIENT_SECRET, pool, refreshTokens, now,
                 ticks, issued, sweeper, expiredSeen>>

\* middleware after the delete: 401 'Token has expired'
mwExpired ==
  /\ req.pc = "mwExpired"
  /\ Respond(Err(401, "Unauthorized"))
  /\ expiredSeen' = expiredSeen \cup {req.hdr.token}
  /\ UNCHANGED <<call, plan, link, driverVars, boot, CLIENT_ID, CLIENT_SECRET, pool, tokens, refreshTokens, now,
                 ticks, issued, sweeper>>

\* next(): the router hands the request to the resource driver of its route,
\* which queries the backend and answers
driver ==
  /\ req.pc = "driver"
  /\ \E route \in ProtectedRoutes :
       req' = [IdleReq EXCEPT !.pc = "done", !.route = route, !.hdr = req.hdr,
                              !.clientId = req.clientId, !.queries = 1,
                              !.resp = [NoResp EXCEPT !.status = 200]]
  /\ UNCHANGED <<call, plan, link, driverVars, boot, CLIENT_ID, CLIENT_SECRET, pool, tokens, refreshTokens, now,
                 ticks, issued, sweeper, expiredSeen>>

\* tokenHandler(req, res), up to its first await
tokenHandler(body) ==
  /\ pool = "open"
  /\ req.pc \in {"idle", "done"}
  /\ LET q == [IdleReq EXCEPT !.body = body]
         answer(resp) == req' = [q EXCEPT !.pc = "done", !.resp = resp]
     IN
       IF body.grant_type = "refresh_token"
         THEN \* handleRefreshToken, up to its first await
              /\ IF body.refresh_token = -1
                   THEN answer(Err(400, "invalid_request"))
                   ELSE req' = [q EXCEPT !.pc = "rfGet"]
              /\ UNCHANGED issued
       ELSE IF body.grant_type # "client_credentials"
         THEN answer(Err(400, "unsupported_grant_type")) /\ UNCHANGED issued
       ELSE IF ~configured
         THEN answer(Err(500, "server_error")) /\ UNCHANGED issued
       ELSE IF invalidClient(body)
         THEN answer(Err(401, "invalid_client")) /\ UNCHANGED issued
       ELSE \E a \in generateToken : \E f \in generateToken \ {a} :
              /\ req' = [q EXCEPT !.pc = "tkSaveAccess",
                                  !.accessToken = a, !.refreshToken = f,
                                  !.accessExpiresAt = now + TOKEN_EXPIRY,
                                  !.refreshExpiresAt = now + REFRESH_TOKEN_EXPIRY]
              /\ issued' = issued \cup {a, f}
  /\ UNCHANGED <<call, plan, link, driverVars, boot, CLIENT_ID, CLIENT_SECRET, pool, tokens, refreshTokens, now,
                 ticks, sweeper, expiredSeen>>

\* await tokenStore.saveToken(accessToken, client_id, accessExpiresAt)
tkSaveAccess ==
  /\ req.pc = "tkSaveAccess"
  /\ tokens' = saveToken(tokens, req.accessToken, req.body.client_id,
                         req.accessExpiresAt)
  /\ req' = [req EXCEPT !.pc = "tkSaveRefresh"]
  /\ UNCHANGED <<call, plan, link, driverVars, boot, CLIENT_ID, CLIENT_SECRET, pool, refreshTokens, now,
                 ticks, issued, sweeper, expiredSeen>>

\* await tokenStore.saveRefreshToken(refreshToken, client_id, refreshExpiresAt)
tkSaveRefresh ==
  /\ req.pc = "tkSaveRefresh"
  /\ refreshTokens' = saveToken(refreshTokens, req.refreshToken,
                                req.body.client_id, req.refreshExpiresAt)
  /\ req' = [req EXCEPT !.pc = "tkRespond"]
  /\ UNCHANGED <<call, plan, link, driverVars, boot, CLIENT_ID, CLIENT_SECRET, pool, tokens, now,
                 ticks, issued, sweeper, expiredSeen>>

\* res.json({access_token, token_type, expires_in, refresh_token})
tkRespond ==
  /\ req.pc = "tkRespond"
  /\ Respond([status |-> 200, code |-> "",
                 access_token |-> req.accessToken,
                 refresh_token |-> req.refreshToken,
                 token_type |-> "Bearer", expires_in |-> TOKEN_EXPIRY])
  /\ UNCHANGED <<call, plan, link, driverVars, boot, CLIENT_ID, CLIENT_SECRET, pool, tokens, refreshTokens, now,
                 ticks, issued, sweeper, expiredSeen>>

\* await tokenStore.getRefreshToken(refreshToken): the SELECT runs
rfGet ==
  /\ req.pc = "rfGet"
  /\ req' = [req EXCEPT !.pc = "rfCheck",
                        !.tokenData = getToken(refreshTokens, req.body.refresh_token)]
  /\ UNCHANGED <<call, plan, link, driverVars, boot, CLIENT_ID, CLIENT_SECRET, pool, tokens, refreshTokens, now,
                 ticks, issued, sweeper, expiredSeen>>

\* handleRefreshToken after the lookup
rfCheck ==
  /\ req.pc = "rfCheck"
  /\ IF ~req.tokenData.found
       THEN Respond(Err(401, "invalid_grant")) /\ UNCHANGED issued
     ELSE IF isExpired(req.tokenData, now)
       THEN req' = [req EXCEPT !.pc = "rfDelete"] /\ UNCHANGED issued
     ELSE \E a \in generateToken :
            /\ req' = [req EXCEPT !.pc = "rfSave",
                                  !.accessToken = a,
                                  !.accessExpiresAt = now + TOKEN_EXPIRY]
            /\ issued' = issued \cup {a}
  /\ UNCHANGED <<call, plan, link, driverVars, boot, CLIENT_ID, CLIENT_SECRET, pool, tokens, refreshTokens, now,
                 ticks, sweeper, expiredSeen>>

\* await tokenStore.deleteRefreshToken(refreshToken): the DELETE runs
rfDelete ==
  /\ req.pc = "rfDelete"
  /\ refreshTokens' = deleteToken(refreshTokens, req.body.refresh_token)
  /\ req' = [req EXCEPT !.pc = "rfExpired"]
  /\ UNCHANGED <<call, plan, link, driverVars, boot, CLIENT_ID, CLIENT_SECRET, pool, tokens, now,
                 ticks, issued, sweeper, expiredSeen>>

\* 401 invalid_grant 'Refresh token has expired'
rfExpired ==
  /\ req.pc = "rfExpired"
  /\ Respond(Err(401, "invalid_grant"))
  /\ UNCHANGED <<call, plan, link, driverVars, boot, CLIENT_ID, CLIENT_SECRET, pool, tokens, refreshTokens, now,
                 ticks, issued, sweeper, expiredSeen>>

rfSave_Mutant ==
  /\ req.pc = "rfSave"
  /\ tokens' = saveToken(tokens, req.accessToken, req.tokenData.clientId,
                         req.accessExpiresAt)
  /\ refreshTokens' = deleteToken(refreshTokens, req.body.refresh_token)
  /\ req' = [req EXCEPT !.pc = "rfRespond"]
  /\ UNCHANGED <<call, plan, link, driverVars, boot, CLIENT_ID, CLIENT_SECRET, pool, now,
                 ticks, issued, sweeper, expiredSeen>>
\* await tokenStore.saveToken(accessToken, tokenData.clientId, accessExpiresAt)
rfSave ==
  /\ req.pc = "rfSave"
  /\ tokens' = saveToken(tokens, req.accessToken, req.tokenData.clientId,
                         req.accessExpiresAt)
  /\ req' = [req EXCEPT !.pc = "rfRespond"]
  /\ UNCHANGED <<call, plan, link, driverVars, boot, CLIENT_ID, CLIENT_SECRET, pool, refreshTokens, now,
                 ticks, issued, sweeper, expiredSeen>>

\* res.json with the new access token and the same refresh token
rfRespond ==
  /\ req.pc = "rfRespond"
  /\ Respond([status |-> 200, code |-> "",
                 access_token |-> req.accessToken,
                 refresh_token |-> req.body.refresh_token,
                 token_type |-> "Bearer", expires_in |-> TOKEN_EXPIRY])
  /\ UNCHANGED <<call, plan, link, driverVars, boot, CLIENT_ID, CLIENT_SECRET, pool, tokens, refreshTokens, now,
                 ticks, issued, sweeper, expiredSeen>>

(***************************************************************************)
(* tokenStore.cleanup(), run by the setInterval callback of auth.js        *)
(***************************************************************************)
IdleSweeper == [pc |-> "idle", now |-> 0]

\* cleanup() up to its first await: return when there is no pool, else read the time
cleanup ==
  /\ sweeper.pc = "idle"
  /\ IF pool = "null"
       THEN sweeper' = [pc |-> "idle", now |-> 0]
       ELSE sweeper' = [pc |-> "cleanTokens", now |-> now]
  /\ UNCHANGED <<call, plan, link, driverVars, boot, CLIENT_ID, CLIENT_SECRET, pool, tokens, refreshTokens, now,
                 ticks, issued, req, expiredSeen>>

\* DELETE FROM oauth_tokens WHERE expires_at < $1
cleanTokens ==
  /\ sweeper.pc = "cleanTokens"
  /\ tokens' = deleteExpired(tokens, sweeper.now)
  /\ sweeper' = [sweeper EXCEPT !.pc = "cleanRefresh"]
  /\ UNCHANGED <<call, plan, link, driverVars, boot, CLIENT_ID, CLIENT_SECRET, pool, refreshTokens, now,
                 ticks, issued, req, expiredSeen>>

\* DELETE FROM oauth_refresh_tokens WHERE expires_at < $1
cleanRefresh ==
  /\ sweeper.pc = "cleanRefresh"
  /\ refreshTokens' = deleteExpired(refreshTokens, sweeper.now)
  /\ sweeper' = IdleSweeper
  /\ UNCHANGED <<call, plan, link, driverVars, boot, CLIENT_ID, CLIENT_SECRET, pool, tokens, now,
                 ticks, issued, req, expiredSeen>>

(***************************************************************************)
(* Environment: start-up and the clock                                     *)
(***************************************************************************)
\* tokenStore.init(): the pool is created (PG_CONNECTION_STRING is set)
init ==
  /\ pool = "null"
  /\ pool' = "open"
  /\ UNCHANGED <<call, plan, link, driverVars, boot, CLIENT_ID, CLIENT_SECRET, tokens, refreshTokens, now,
                 ticks, issued, req, sweeper, expiredSeen>>

\* time passes
Tick ==
  /\ ticks < MaxTicks
  /\ \E d \in ClockSteps : now' = now + d
  /\ ticks' = ticks + 1
  /\ UNCHANGED <<call, plan, link, driverVars, boot, CLIENT_ID, CLIENT_SECRET, pool, tokens, refreshTokens,
                 issued, req, sweeper, expiredSeen>>

\* rows a previous run of the service left in a table
LeftOver(token, lifetime) ==
  {EmptyTable} \cup
  { [t \in {token} |-> [clientId |-> "test-client", expiresAt |-> lifetime]] }

InitAuth ==
  /\ call = NoCall
  /\ plan = NoPlan
  /\ link = NoLink
  /\ handler = NoHandler
  /\ queries = <<>>
  /\ res = Unanswered
  /\ CLIENT_ID \in {Undefined, "test-client"}
  /\ CLIENT_SECRET \in {Undefined, "test-secret"}
  /\ pool = "null"
  /\ tokens \in LeftOver(0, TOKEN_EXPIRY)
  /\ refreshTokens \in LeftOver(0, REFRESH_TOKEN_EXPIRY)
  /\ now = 0
  /\ ticks = 0
  /\ issued = {0}
  /\ req = IdleReq
  /\ sweeper = IdleSweeper
  /\ expiredSeen = {}
  /\ boot = NotStarted

NextAuth ==
  \/ init
  \/ Tick
  \/ cleanup
  \/ cleanTokens
  \/ cleanRefresh
  \/ \E hdr \in Headers : middleware(hdr)
  \/ mwGetToken
  \/ mwCheck
  \/ mwDelete
  \/ mwExpired
  \/ driver
  \/ \E body \in Bodies : tokenHandler(body)
  \/ tkSaveAccess
  \/ tkSaveRefresh
  \/ tkRespond
  \/ rfGet
  \/ rfCheck
  \/ rfDelete
  \/ rfExpired
  \/ rfSave
  \/ rfRespond

SpecAuth == InitAuth /\ [][NextAuth]_vars

(***************************************************************************)
(* Properties of the token service                                         *)
(***************************************************************************)
Unexpired(table, token) ==
  token \in DOMAIN table /\ ~(table[token].expiresAt < now)
ValidBearer(hdr) == hdr.scheme = "Bearer " /\ Unexpired(tokens, hdr.token)

\* this step hands the request to the resource driver (next() is called)
Admitted == req'.pc = "driver" /\ req.pc # "driver"
\* this step is the middleware answering the request itself
MwAnswers ==
  /\ req' # req
  /\ req'.pc = "done"
  /\ \/ req.pc \in {"mwCheck", "mwExpired"}
     \/ req.pc \in {"idle", "done"} /\ req'.body = NoBody
\* a backend query is issued only by a driver
QueriesOnlyInDriver == req'.queries > 0 => (req.pc = "driver" \/ req' = req)

Guarded ==
  /\ Admitted => ValidBearer(req'.hdr)
  /\ MwAnswers => req'.resp = Err(401, "Unauthorized") /\ req'.queries = 0
  /\ QueriesOnlyInDriver

\* C3 (as stated): whatever the configuration, a request to a protected route
\* reaches a resource driver only with 'Bearer <t>', t in the token store and
\* not expired; every other request is answered 401 Unauthorized without a
\* backend query.
C3_Original == [][Guarded]_authVars

\* C3 (amended): the same, when OAUTH_CLIENT_ID and OAUTH_CLIENT_SECRET are
\* both set; when either is unset the middleware calls next() for every request.
C3_Amended ==
  [][/\ configured => Guarded
     /\ (~configured /\ req' # req /\ req.pc \in {"idle", "done"}
           /\ req'.body = NoBody) => req'.pc = "driver"]_authVars

C3_Witness == configured /\ req.pc = "driver" /\ ValidBearer(req.hdr)

\* C4: a token found expired is deleted before the 401 is sent, stays
\* deleted, and no later request presenting it reaches a driver: such a
\* request is answered 401.
C4_ExpiredNeverAccepted ==
  /\ req.pc = "mwExpired" => req.hdr.token \notin DOMAIN tokens
  /\ \A t \in expiredSeen : t \notin DOMAIN tokens
  /\ (req.hdr.scheme = "Bearer " /\ req.hdr.token \in expiredSeen) =>
       /\ req.pc # "driver"
       /\ req.pc = "done" => req.resp = Err(401, "Unauthorized")

C4_Witness ==
  req.pc = "mwCheck" /\ req.hdr.token \in expiredSeen /\ ~req.tokenData.found

\* the handler of POST /token takes this step
TokenStep == req' # req /\ req'.body # NoBody
Rejected == TokenStep /\ req'.pc = "done" /\ req'.resp.status # 200
RowIs(table, token, clientId, expiresAt) ==
  /\ token \in DOMAIN table
  /\ table[token] = [clientId |-> clientId, expiresAt |-> expiresAt]

\* C5: POST /token: any grant other than client_credentials and refresh_token
\* is answered 400 unsupported_grant_type; client_credentials with a client_id
\* or client_secret differing from the configured constants 401
\* invalid_client; only when both match are a fresh access token (now + 3600 s)
\* and a fresh refresh token (now + 30 days) saved and returned with
\* token_type Bearer and expires_in 3600; a rejection changes neither table.
C5_TokenGrant ==
  [][/\ (TokenStep /\ req.pc \in {"idle", "done"}
           /\ req'.body.grant_type \notin {"client_credentials", "refresh_token"})
          => req'.pc = "done" /\ req'.resp = Err(400, "unsupported_grant_type")
     /\ (TokenStep /\ req.pc \in {"idle", "done"} /\ configured
           /\ req'.body.grant_type = "client_credentials"
           /\ (req'.body.client_id # CLIENT_ID
                 \/ req'.body.client_secret # CLIENT_SECRET))
          => req'.pc = "done" /\ req'.resp = Err(401, "invalid_client")
     /\ (TokenStep /\ req'.pc = "tkSaveAccess")
          => /\ req'.body.grant_type = "client_credentials"
             /\ req'.body.client_id = CLIENT_ID
             /\ req'.body.client_secret = CLIENT_SECRET
             /\ configured
             /\ req'.accessToken \notin issued \cup DOMAIN tokens
             /\ req'.refreshToken \notin issued \cup DOMAIN refreshTokens
             /\ req'.accessToken # req'.refreshToken
             /\ req'.accessExpiresAt = now + 3600
             /\ req'.refreshExpiresAt = now + 30 * 24 * 3600
     /\ (TokenStep /\ req.pc = "tkSaveAccess")
          => /\ RowIs(tokens', req.accessToken, CLIENT_ID, req.accessExpiresAt)
             /\ DOMAIN tokens' = DOMAIN tokens \cup {req.accessToken}
             /\ \A t \in DOMAIN tokens : tokens'[t] = tokens[t]
             /\ UNCHANGED refreshTokens
     /\ (TokenStep /\ req.pc = "tkSaveRefresh")
          => /\ RowIs(refreshTokens', req.refreshToken, CLIENT_ID,
                      req.refreshExpiresAt)
             /\ DOMAIN refreshTokens' = DOMAIN refreshTokens \cup {req.refreshToken}
             /\ \A t \in DOMAIN refreshTokens : refreshTokens'[t] = refreshTokens[t]
             /\ UNCHANGED tokens
     /\ (TokenStep /\ req'.pc = "done" /\ req'.resp.status = 200
           /\ req'.body.grant_type = "client_credentials")
          => /\ req.pc = "tkRespond"
             /\ req'.resp = [status |-> 200, code |-> "",
                             access_token |-> req.accessToken,
                             refresh_token |-> req.refreshToken,
                             token_type |-> "Bearer", expires_in |-> 3600]
     /\ (TokenStep /\ (Rejected \/ req'.body.grant_type \notin
                                     {"client_credentials", "refresh_token"}))
          => UNCHANGED <<tokens, refreshTokens>>
     /\ (TokenStep /\ req'.body.grant_type = "client_credentials"
           /\ tokens' # tokens) => req.pc = "tkSaveAccess"
     /\ (TokenStep /\ req'.body.grant_type = "client_credentials"
           /\ refreshTokens' # refreshTokens) => req.pc = "tkSaveRefresh"
    ]_authVars

C5_Witness ==
  /\ req.pc = "done" /\ req.body.grant_type = "client_credentials"
  /\ req.resp.status = 200
  /\ RowIs(tokens, req.resp.access_token, CLIENT_ID, now + TOKEN_EXPIRY)
  /\ req.resp.refresh_token \in DOMAIN refreshTokens

\* the handler of the refresh_token grant takes this step
RefreshStep == TokenStep /\ req'.body.grant_type = "refresh_token"

\* C6: refresh_token grant: 400 invalid_request without refresh_token, 401
\* invalid_grant when it is not stored, delete and 401 when expired; otherwise
\* exactly one new access token is saved for the refresh token's clientId with
\* expiry now + 3600 s, the same refresh_token is returned and the refresh
\* table is left unchanged, so the token stays usable until its own expiry.
C6_RefreshGrant ==
  [][/\ (RefreshStep /\ req.pc \in {"idle", "done"})
          => IF req'.body.refresh_token = -1
               THEN req'.pc = "done" /\ req'.resp = Err(400, "invalid_request")
               ELSE req'.pc = "rfGet"
     /\ (RefreshStep /\ req.pc = "rfGet")
          => req'.tokenData = getToken(refreshTokens, req.body.refresh_token)
     /\ (RefreshStep /\ req.pc = "rfCheck")
          => IF ~req.tokenData.found
               THEN req'.pc = "done" /\ req'.resp = Err(401, "invalid_grant")
             ELSE IF req.tokenData.expiresAt < now
               THEN req'.pc = "rfDelete"
             ELSE /\ req'.pc = "rfSave"
                  /\ req'.accessToken \notin issued \cup DOMAIN tokens
                  /\ req'.accessExpiresAt = now + 3600
     /\ (RefreshStep /\ req.pc = "rfDelete")
          => /\ refreshTokens' =
                  [t \in DOMAIN refreshTokens \ {req.body.refresh_token} |->
                     refreshTokens[t]]
             /\ req'.pc = "rfExpired"
     /\ (RefreshStep /\ req.pc = "rfExpired")
          => req'.pc = "done" /\ req'.resp = Err(401, "invalid_grant")
     /\ (RefreshStep /\ req.pc = "rfSave")
          => /\ RowIs(tokens', req.accessToken, req.tokenData.clientId,
                      req.accessExpiresAt)
             /\ DOMAIN tokens' = DOMAIN tokens \cup {req.accessToken}
             /\ Cardinality(DOMAIN tokens') = Cardinality(DOMAIN tokens) + 1
             /\ \A t \in DOMAIN tokens : tokens'[t] = tokens[t]
     /\ (RefreshStep /\ req'.pc = "done" /\ req'.resp.status = 200)
          => /\ req.pc = "rfRespond"
             /\ req'.resp = [status |-> 200, code |-> "",
                             access_token |-> req.accessToken,
                             refresh_token |-> req.body.refresh_token,
                             token_type |-> "Bearer", expires_in |-> 3600]
     /\ (RefreshStep /\ req.pc # "rfDelete") => UNCHANGED refreshTokens
     /\ (RefreshStep /\ req.pc # "rfSave") => UNCHANGED tokens
     \* until its original expiry the refresh token stays as it was looked up
     /\ (req'.pc \in {"rfSave", "rfRespond"}
           /\ ~(req'.tokenData.expiresAt < now'))
          => RowIs(refreshTokens', req'.body.refresh_token,
                   req'.tokenData.clientId, req'.tokenData.expiresAt)
    ]_authVars

\* the leftover refresh token has served two refreshes and is still stored
C6_Witness ==
  /\ req.pc = "rfRespond"
  /\ {1, 2} \subseteq DOMAIN tokens
  /\ req.body.refresh_token \in DOMAIN refreshTokens
  /\ DOMAIN refreshTokens = {0}

\* C7: cleanup() deletes from both tables exactly the rows whose expires_at
\* is earlier than the time read at the start of the call and keeps every
\* other row as it is; without a pool it changes nothing.
C7_Cleanup ==
  [][/\ (sweeper.pc = "cleanTokens" /\ sweeper' # sweeper)
          => /\ DOMAIN tokens' =
                  {t \in DOMAIN tokens : tokens[t].expiresAt >= sweeper.now}
             /\ \A t \in DOMAIN tokens' : tokens'[t] = tokens[t]
             /\ UNCHANGED refreshTokens
             /\ sweeper'.now = sweeper.now
     /\ (sweeper.pc = "cleanRefresh" /\ sweeper' # sweeper)
          => /\ DOMAIN refreshTokens' =
                  {t \in DOMAIN refreshTokens :
                     refreshTokens[t].expiresAt >= sweeper.now}
             /\ \A t \in DOMAIN refreshTokens' : refreshTokens'[t] = refreshTokens[t]
             /\ UNCHANGED tokens
     /\ (sweeper.pc = "idle" /\ sweeper' # sweeper)
          => pool = "open" /\ sweeper'.now = now /\ UNCHANGED <<tokens, refreshTokens>>
     /\ pool = "null" => UNCHANGED <<tokens, refreshTokens, sweeper>>
    ]_authVars

\* a sweep has removed the expired leftover row and kept a younger one
C7_Witness ==
  /\ sweeper.pc = "cleanRefresh"
  /\ 0 \notin DOMAIN tokens /\ 0 \notin expiredSeen
  /\ \E t \in DOMAIN tokens : tokens[t].expiresAt >= sweeper.now

\* C8: under every interleaving of the sweeper with a request's token
\* verification, a row leaves the token table only when its expiry has
\* passed, a token whose expiry has passed is answered 401 whichever of the
\* two deleted it, and a stored token whose expiry has not passed is not
\* answered 401.
C8_SweeperRace ==
  [][/\ \A t \in DOMAIN tokens \ DOMAIN tokens' : tokens[t].expiresAt < now
     /\ \A t \in DOMAIN refreshTokens \ DOMAIN refreshTokens' :
          refreshTokens[t].expiresAt < now
     /\ (configured /\ req.pc \in {"mwCheck", "mwExpired"} /\ req' # req)
          => /\ ~Unexpired(tokens, req.hdr.token)
                  => req'.pc = "mwDelete" \/
                     (req'.pc = "done" /\ req'.resp = Err(401, "Unauthorized"))
             /\ Unexpired(tokens, req.hdr.token)
                  => req'.pc = "driver" /\ req'.resp.status # 401
    ]_authVars

\* the sweeper deleted the token between the request's lookup and its check
C8_Witness ==
  /\ req.pc = "mwCheck" /\ req.tokenData.found
  /\ req.hdr.token \notin DOMAIN tokens
  /\ sweeper.pc = "cleanRefresh"

(***************************************************************************)
(* resources/property.js: list and get, up to the plan buildQuery returns  *)
(***************************************************************************)
\* key.startsWith("'") && key.endsWith("'") ? key.slice(1, -1) : key
stripQuotes(key) ==
  IF Len(key) >= 1 /\ key[1] = "'" /\ key[Len(key)] = "'"
    THEN SubSeq(key, 2, Len(key) - 1)
    ELSE key

\* list(req, res, next): buildQuery without keyValue
list ==
  /\ call.route = "list"
  /\ plan = NoPlan
  /\ plan' = buildQuery(Options(call.query, JsUndefined))
  /\ UNCHANGED <<call, link, driverVars, authVars>>

\* get(req, res, next): buildQuery with the key of the route, quotes stripped
get ==
  /\ call.route = "get"
  /\ plan = NoPlan
  /\ plan' = buildQuery(Options(call.query, JsString(stripQuotes(call.key))))
  /\ UNCHANGED <<call, link, driverVars, authVars>>

RECURSIVE Texts(_, _)
\* the texts made of at most n of the given words
Texts(words, n) ==
  IF n = 0 THEN {<<>>}
  ELSE LET shorter == Texts(words, n - 1)
       IN shorter \cup {t \o words[k] : t \in shorter, k \in 1..Len(words)}

FilterWords == << <<"C", "i", "t", "y", " ", "e", "q", " ">>, <<"B", "o", "g", "u", "s", " ", "e", "q", " ">>, <<"'", "x", "'">>, <<"1">>, <<"2", "0", "2", "4", "-", "0", "1", "-", "1", "5">>,
                  <<" ", "a", "n", "d", " ">>, <<"c", "o", "n", "t", "a", "i", "n", "s", "(", "C", "i", "t", "y", ",">>, <<")">>, <<"'">>, <<";">> >>
NumberWords == << <<"-">>, <<"0">>, <<"1">>, <<"9">>, <<"x">> >>
SelectWords == << <<"C", "i", "t", "y">>, <<"L", "i", "s", "t", "P", "r", "i", "c", "e">>, <<"B", "o", "g", "u", "s">>, <<",">>, <<" ">> >>
OrderWords == << <<"C", "i", "t", "y">>, <<"B", "o", "g", "u", "s">>, <<",">>, <<" ">>, <<"d", "e", "s", "c">>, <<"D", "E", "S", "C">> >>

Strings(words) == {JsString(t) : t \in Texts(words, MaxWords)}
Routes == { [route |-> "list", key |-> <<>>],
            [route |-> "get", key |-> <<"'", "x", "'">>],
            [route |-> "get", key |-> <<"x">>],
            [route |-> "get", key |-> <<"'", "'">>] }

True == JsString(<<"t", "r", "u", "e">>)
\* list requests whose $filter varies
FilterCalls ==
  { Call("list", <<>>, [NoQuery EXCEPT !.filter = f, !.count = True,
                                       !.select = JsString(<<"C", "i", "t", "y">>)]) :
      f \in Strings(FilterWords) }
\* requests on every route with a short $filter, some $count and $orderby
CountCalls ==
  { Call(r.route, r.key, [NoQuery EXCEPT !.filter = JsString(f), !.count = c,
                                         !.orderby = o]) :
      r \in Routes, f \in Texts(FilterWords, 1),
      c \in {JsUndefined, True, JsString(<<"f", "a", "l", "s", "e">>)},
      o \in {JsUndefined, JsString(<<"C", "i", "t", "y", " ", "d", "e", "s", "c">>)} }
\* requests whose $top varies
TopCalls ==
  { Call(r.route, r.key, [NoQuery EXCEPT !.top = t, !.skip = s, !.orderby = o,
                                         !.select = JsString(<<"C", "i", "t", "y">>)]) :
      r \in {r \in Routes : Len(r.key) # 1},
      t \in {JsUndefined} \cup Strings(NumberWords),
      s \in {JsUndefined, JsString(<<"-", "1">>)},
      o \in {JsUndefined} }
\* requests whose $skip varies
SkipCalls ==
  { Call("list", <<>>, [NoQuery EXCEPT !.top = t, !.skip = s,
                                       !.select = JsString(<<"C", "i", "t", "y">>)]) :
      t \in {JsUndefined, JsString(<<"1", "0", "0", "1">>)},
      s \in Strings(NumberWords) }
\* requests whose $select varies
SelectCalls ==
  { Call(r.route, r.key, [NoQuery EXCEPT !.select = s, !.orderby = o]) :
      r \in {r \in Routes : Len(r.key) # 1},
      s \in Strings(SelectWords),
      o \in {JsUndefined, JsString(<<"B", "o", "g", "u", "s">>)} }
\* requests whose $orderby varies
OrderCalls ==
  { Call("list", <<>>, [NoQuery EXCEPT !.select = s, !.orderby = o, !.filter = f]) :
      s \in {JsString(<<"C", "i", "t", "y">>)},
      o \in Strings(OrderWords),
      f \in {JsUndefined, JsString(<<"C", "i", "t", "y", " ", "e", "q", " ", "1">>)} }

\* the token service stays unconfigured and idle while the parser is exercised
InitParser ==
  /\ \/ call \in FilterCalls
     \/ call \in CountCalls
     \/ call \in TopCalls
     \/ call \in SkipCalls
     \/ call \in SelectCalls
     \/ call \in OrderCalls
  /\ plan = NoPlan
  /\ link = NoLink
  /\ handler = NoHandler
  /\ queries = <<>>
  /\ res = Unanswered
  /\ CLIENT_ID = Undefined
  /\ CLIENT_SECRET = Undefined
  /\ pool = "null"
  /\ tokens = EmptyTable
  /\ refreshTokens = EmptyTable
  /\ now = 0
  /\ ticks = 0
  /\ issued = {}
  /\ req = IdleReq
  /\ sweeper = IdleSweeper
  /\ expiredSeen = {}
  /\ boot = NotStarted

NextParser ==
  \/ list
  \/ get

SpecParser == InitParser /\ [][NextParser]_vars

(***************************************************************************)
(* Properties of the query builder.                                        *)
(***************************************************************************)
Range(seq) == {seq[k] : k \in 1..Len(seq)}
\* text contains part
Contains(text, part) ==
  \E i \in 1..(Len(text) - Len(part) + 1) : SubSeq(text, i, i + Len(part) - 1) = part
\* the lines of a query text, trimmed: '', SELECT, FROM, WHERE, ORDER BY, OFFSET,
\* FETCH NEXT, ''
Lines(text) == LET parts == split(text, "\n") IN [k \in 1..Len(parts) |-> trim(parts[k])]

\* the keyValue a request gives buildQuery, and the plan built for it
KeyValueOf(c) == IF c.route = "get" THEN JsString(stripQuotes(c.key)) ELSE JsUndefined
PlanOf(c) == buildQuery(Options(c.query, KeyValueOf(c)))
Built == plan # NoPlan

\* the same text with other literal values: x becomes z, 1 becomes 2
Vary(text) ==
  [k \in 1..Len(text) |->
     CASE text[k] = "x" -> "z" [] text[k] = "1" -> "2" [] OTHER -> text[k]]
VaryValue(v) ==
  CASE v.t = "string" -> JsString(Vary(v.s))
    [] v.t = "number" -> parseInt(JsString(Vary(IntToString(v.n))))
    [] OTHER -> v
Varied(c) == [c EXCEPT !.key = Vary(@), !.query.filter = VaryValue(@)]

\* the literals of a request: the key, or else the string, number and datetime
\* tokens of its $filter
Literals(c) ==
  IF Truthy(KeyValueOf(c)) THEN <<KeyValueOf(c)>>
  ELSE IF Truthy(c.query.filter)
    THEN LET toks == tokenizeFilter(c.query.filter.s).tokens
             lits == SelectSeq(toks, LAMBDA t : t.type \in {"string", "number", "datetime"})
         IN [k \in 1..Len(lits) |-> lits[k].value]
  ELSE <<>>
\* the parameter holds the literal, as it is or wrapped in % for LIKE
Carries(param, literal) ==
  \/ param.value = literal
  \/ /\ literal.t = "string"
     /\ param.value \in {JsString(LikePattern(f, literal.s)) :
                           f \in {<<"c", "o", "n", "t", "a", "i", "n", "s">>, <<"s", "t", "a", "r", "t", "s", "w", "i", "t", "h">>, <<"e", "n", "d", "s", "w", "i", "t", "h">>}}

(* C1: for every accepted request, every literal value of the $filter (or   *)
(* the key) is carried by one entry of params, in order, and the data and   *)
(* count SQL do not depend on the literal values: the request with other    *)
(* literal values is accepted with the same SQL text and the same           *)
(* parameter names, its parameters holding the other values.                *)
C1_Parameterized ==
  plan.ok =>
    LET lits == Literals(call)
        other == PlanOf(Varied(call))
    IN /\ Len(plan.params) = Len(lits)
       /\ \A k \in 1..Len(lits) : Carries(plan.params[k], lits[k])
       /\ other.ok
       /\ other.dataQuery = plan.dataQuery
       /\ other.hasCount = plan.hasCount
       /\ other.countQuery = plan.countQuery
       /\ Len(other.params) = Len(plan.params)
       /\ \A k \in 1..Len(plan.params) :
            /\ other.params[k].name = plan.params[k].name
            /\ other.params[k].value = VaryValue(plan.params[k].value)

\* an accepted list request with a string literal holding x and a number
C1_Witness ==
  /\ plan.ok
  /\ call.route = "list"
  /\ plan.hasCount
  /\ \E k \in 1..Len(plan.params) :
       plan.params[k].value.t = "string" /\ Contains(plan.params[k].value.s, <<"x">>)
  /\ \E k \in 1..Len(plan.params) : plan.params[k].value.t = "number"
  /\ PlanOf(Varied(call)).params # plan.params

\* the field names a query names: the entries of $select, the first word of
\* each $orderby entry, the identifiers of $filter
SelectNames(query) ==
  IF Truthy(query.select)
    THEN LET parts == split(query.select.s, ",") IN [k \in 1..Len(parts) |-> trim(parts[k])]
    ELSE <<>>
OrderByNames(query) ==
  IF Truthy(query.orderby)
    THEN LET parts == split(query.orderby.s, ",")
         IN [k \in 1..Len(parts) |-> splitWhiteSpace(trim(parts[k]))[1]]
    ELSE <<>>
FilterNames(query) ==
  IF Truthy(query.filter)
    THEN LET ids == SelectSeq(tokenizeFilter(query.filter.s).tokens,
                              LAMBDA t : t.type = "identifier")
         IN [k \in 1..Len(ids) |-> ids[k].value.s]
    ELSE <<>>
NonKeys(names) == SelectSeq(names, LAMBDA name : ~Has(fieldMap, name))
Columns(names) == [k \in 1..Len(names) |-> Lookup(fieldMap, names[k])]

\* the error is one of the three field errors and names a name of that option
\* which is not a key
NamesOffender(err, query) ==
  \/ /\ err.prefix = <<>> /\ err.msg = <<"I", "n", "v", "a", "l", "i", "d", " ", "f", "i", "e", "l", "d", " ", "i", "n", " ", "$", "s", "e", "l", "e", "c", "t", ":", " ">>
     /\ err.arg \in Range(NonKeys(SelectNames(query)))
  \/ /\ err.prefix = <<>> /\ err.msg = <<"I", "n", "v", "a", "l", "i", "d", " ", "f", "i", "e", "l", "d", " ", "i", "n", " ", "$", "o", "r", "d", "e", "r", "b", "y", ":", " ">>
     /\ err.arg \in Range(NonKeys(OrderByNames(query)))
  \/ /\ err.prefix = <<"I", "n", "v", "a", "l", "i", "d", " ", "$", "f", "i", "l", "t", "e", "r", ":", " ">> /\ err.msg = <<"U", "n", "k", "n", "o", "w", "n", " ", "f", "i", "e", "l", "d", ":", " ">>
     /\ err.arg \in Range(NonKeys(FilterNames(query)))
\* the error is one of the three field errors and names the first name of its
\* option that is not a key
FirstOffender(err, selected, ordered, filtered) ==
  LET names == CASE err.msg = <<"I", "n", "v", "a", "l", "i", "d", " ", "f", "i", "e", "l", "d", " ", "i", "n", " ", "$", "s", "e", "l", "e", "c", "t", ":", " ">> -> selected
                 [] err.msg = <<"I", "n", "v", "a", "l", "i", "d", " ", "f", "i", "e", "l", "d", " ", "i", "n", " ", "$", "o", "r", "d", "e", "r", "b", "y", ":", " ">> -> ordered
                 [] err.msg = <<"U", "n", "k", "n", "o", "w", "n", " ", "f", "i", "e", "l", "d", ":", " ">> -> filtered
                 [] OTHER -> <<>>
  IN /\ NonKeys(names) # <<>>
     /\ err.arg = NonKeys(names)[1]
     /\ err.prefix = IF err.msg = <<"U", "n", "k", "n", "o", "w", "n", " ", "f", "i", "e", "l", "d", ":", " ">> THEN <<"I", "n", "v", "a", "l", "i", "d", " ", "$", "f", "i", "l", "t", "e", "r", ":", " ">> ELSE <<>>
\* the error is a syntax error of the $filter, which names no field
SyntaxError(err) == err.prefix = <<"I", "n", "v", "a", "l", "i", "d", " ", "$", "f", "i", "l", "t", "e", "r", ":", " ">> /\ err.msg # <<"U", "n", "k", "n", "o", "w", "n", " ", "f", "i", "e", "l", "d", ":", " ">>

(* C2 as stated, syntax errors of the $filter aside: every request either   *)
(* throws a field error naming a name of the input that is not a key, or    *)
(* is planned with every field name of $select, $orderby and $filter a key  *)
(* whose column is in the data SQL.                                         *)
C2_Original ==
  Built =>
    \/ ~plan.ok /\ (NamesOffender(plan.err, call.query) \/ SyntaxError(plan.err))
    \/ /\ plan.ok
       /\ LET names == SelectNames(call.query) \o OrderByNames(call.query)
                       \o FilterNames(call.query)
          IN /\ NonKeys(names) = <<>>
             /\ \A k \in 1..Len(names) :
                  Contains(plan.dataQuery, Lookup(fieldMap, names[k]))

(* C2, amended: a planned request has every name of $select and $orderby,   *)
(* and of $filter unless a key is given, a key of the field map, and the    *)
(* SELECT line is the list of their columns, the ORDER BY and WHERE lines   *)
(* hold their columns; no name that is not a key occurs in the data SQL;    *)
(* a field error names the first name of its option that is not a key; any  *)
(* other error is a syntax error of the $filter.                            *)
C2_Whitelist ==
  Built =>
    LET query == call.query
        keyed == Truthy(KeyValueOf(call))
        lines == Lines(plan.dataQuery)
        selected == SelectNames(query)
        ordered == OrderByNames(query)
        filtered == FilterNames(query)
    IN IF plan.ok
         THEN /\ NonKeys(selected) = <<>>
              /\ NonKeys(ordered) = <<>>
              /\ ~keyed => NonKeys(filtered) = <<>>
              /\ Truthy(query.select) =>
                   lines[2] = <<"S", "E", "L", "E", "C", "T", " ">> \o Join(Columns(selected), <<",", " ">>)
              /\ \A k \in 1..Len(ordered) :
                   Contains(lines[5], Lookup(fieldMap, ordered[k]))
              /\ ~keyed => \A k \in 1..Len(filtered) :
                   Contains(lines[4], Lookup(fieldMap, filtered[k]))
              /\ \A name \in Range(NonKeys(filtered)) :
                   ~Contains(plan.dataQuery, name)
         ELSE \/ FirstOffender(plan.err, selected, ordered, filtered)
              \/ ~keyed /\ SyntaxError(plan.err)

\* a list request refused because its $filter names Bogus
C2_Witness ==
  /\ Built /\ ~plan.ok
  /\ call.route = "list"
  /\ plan.err.msg = <<"U", "n", "k", "n", "o", "w", "n", " ", "f", "i", "e", "l", "d", ":", " ">>
  /\ plan.err.arg = <<"B", "o", "g", "u", "s">>
  /\ Len(FilterNames(call.query)) >= 2

(* C9: every plan has top in [1,1000] and skip >= 0, its data SQL ends with *)
(* OFFSET skip ROWS and FETCH NEXT top ROWS ONLY, and its ORDER BY line is  *)
(* the compiled $orderby when one is given and the first column of the      *)
(* field map otherwise, on the list route and on the key route.             *)
C9_BoundedOrdered ==
  plan.ok =>
    LET lines == Lines(plan.dataQuery)
        orderby == call.query.orderby
    IN /\ plan.top \in 1..1000
       /\ plan.skip >= 0
       /\ Len(lines) = 8
       /\ lines[6] = <<"O", "F", "F", "S", "E", "T", " ">> \o IntToString(plan.skip) \o <<" ", "R", "O", "W", "S">>
       /\ lines[7] = <<"F", "E", "T", "C", "H", " ", "N", "E", "X", "T", " ">> \o IntToString(plan.top) \o <<" ", "R", "O", "W", "S", " ", "O", "N", "L", "Y">>
       /\ lines[5] = <<"O", "R", "D", "E", "R", " ", "B", "Y", " ">> \o
            (IF Truthy(orderby) THEN parseOrderBy(orderby, fieldMap).sql
                                ELSE Values(fieldMap)[1])
       /\ Len(lines[5]) > Len(<<"O", "R", "D", "E", "R", " ", "B", "Y", " ">>)

\* a key lookup without $orderby whose $top was above 1000
C9_Witness ==
  /\ plan.ok
  /\ call.route = "get" /\ Truthy(KeyValueOf(call))
  /\ ~Truthy(call.query.orderby)
  /\ parseInt(call.query.top).t = "number" /\ parseInt(call.query.top).n > 1000
  /\ parseInt(call.query.skip).t = "number" /\ parseInt(call.query.skip).n < 0

\* the text is an integer: an optional minus sign and digits
IsInteger(v) ==
  /\ v.t = "string"
  /\ LET d == IF v.s # <<>> /\ v.s[1] = "-" THEN Tail(v.s) ELSE v.s
     IN d # <<>> /\ \A k \in 1..Len(d) : d[k] \in Digits
IntegerOf(v) ==
  IF v.s[1] = "-" THEN 0 - DigitsValue(v.s, 2, 0) ELSE DigitsValue(v.s, 1, 0)
\* the option is absent or does not start with a number
NotANumber(v) == parseInt(v).t = "NaN"

(* C10: for every integer n given as $top the plan's top is                 *)
(* min(max(n,1),1000), for every integer n given as $skip the plan's skip   *)
(* is max(n,0), and an option that is absent or not a number gives top 100  *)
(* and skip 0.                                                              *)
C10_Clamped ==
  plan.ok =>
    /\ IsInteger(call.query.top) =>
         plan.top = Min(Max(IntegerOf(call.query.top), 1), 1000)
    /\ IsInteger(call.query.skip) =>
         plan.skip = Max(IntegerOf(call.query.skip), 0)
    /\ NotANumber(call.query.top) => plan.top = 100
    /\ NotANumber(call.query.skip) => plan.skip = 0

(* C10 but for $top=0: the same, for every integer n other than 0 given as  *)
(* $top; $top=0 gives top 100.                                              *)
C10_ClampedButZero ==
  plan.ok =>
    /\ IsInteger(call.query.top) =>
         plan.top = IF IntegerOf(call.query.top) = 0 THEN 100
                    ELSE Min(Max(IntegerOf(call.query.top), 1), 1000)
    /\ IsInteger(call.query.skip) =>
         plan.skip = Max(IntegerOf(call.query.skip), 0)
    /\ NotANumber(call.query.top) => plan.top = 100
    /\ NotANumber(call.query.skip) => plan.skip = 0

\* $top=0 was planned
C10_ZeroTop ==
  plan.ok /\ IsInteger(call.query.top) /\ IntegerOf(call.query.top) = 0

(* C12: when a request gives both a key and a $filter the key wins: the     *)
(* $filter raises no error whatever it holds, and when $select and $orderby *)
(* are accepted the WHERE clause is '<keyColumn> = @keyValue' and params    *)
(* holds keyValue alone, with the key as its value and no filterN entry.    *)
C12_KeyValueWins ==
  (Built /\ Truthy(KeyValueOf(call)) /\ Truthy(call.query.filter)) =>
    /\ plan.err.prefix # <<"I", "n", "v", "a", "l", "i", "d", " ", "$", "f", "i", "l", "t", "e", "r", ":", " ">>
    /\ plan.ok <=> /\ parseSelect(call.query.select, fieldMap).ok
                   /\ parseOrderBy(call.query.orderby, fieldMap).ok
    /\ plan.ok =>
         /\ Lines(plan.dataQuery)[4] =
              <<"W", "H", "E", "R", "E", " ">> \o Lookup(fieldMap, KEY_FIELD) \o <<" ", "=", " ", "@", "k", "e", "y", "V", "a", "l", "u", "e">>
         /\ plan.params = <<Param(<<"k", "e", "y", "V", "a", "l", "u", "e">>, JsString(stripQuotes(call.key)))>>
         /\ \A k \in 1..Len(plan.params) :
              SubSeq(plan.params[k].name, 1, 6) # <<"f", "i", "l", "t", "e", "r">>

\* a key lookup was planned although its $filter alone is rejected
C12_Witness ==
  /\ plan.ok
  /\ Truthy(KeyValueOf(call))
  /\ Truthy(call.query.filter)
  /\ ~parseFilter(call.query.filter, fieldMap).ok

RECURSIVE EndsInString(_, _, _)
\* reading s from position i, the text ends inside a single-quoted string:
\* outside a string a quote opens one, inside '' is a quote and ' closes
EndsInString(s, i, inside) ==
  IF i > Len(s) THEN inside
  ELSE IF ~inside THEN EndsInString(s, i + 1, s[i] = "'")
  ELSE IF s[i] = "'" /\ i < Len(s) /\ s[i + 1] = "'" THEN EndsInString(s, i + 2, TRUE)
  ELSE EndsInString(s, i + 1, s[i] # "'")

(* C20: for every $filter in which a single-quoted string is opened and     *)
(* never closed, tokenizeFilter throws, and so buildQuery (without a key)   *)
(* throws an 'Invalid $filter' error and returns no sql or params.          *)
C20_UnclosedThrows ==
  (Built /\ ~Truthy(KeyValueOf(call)) /\ Truthy(call.query.filter)
         /\ EndsInString(call.query.filter.s, 1, FALSE)) =>
    /\ ~tokenizeFilter(call.query.filter.s).ok
    /\ ~plan.ok
    /\ plan.err.prefix = <<"I", "n", "v", "a", "l", "i", "d", " ", "$", "f", "i", "l", "t", "e", "r", ":", " ">>

(***************************************************************************)
(* parser.js: the nextLinkBuilder closure of buildQuery                    *)
(***************************************************************************)
\* the printable ASCII characters in code order: 32..91, 93..95 and 97..126
AsciiLow == <<" ", "!", "\"", "#", "$", "%", "&", "'", "(", ")", "*", "+", ",", "-", ".", "/", "0", "1", "2", "3", "4", "5", "6", "7", "8", "9", ":", ";", "<", "=", ">", "?", "@", "A", "B", "C", "D", "E", "F", "G", "H", "I", "J", "K", "L", "M", "N", "O", "P", "Q", "R", "S", "T", "U", "V", "W", "X", "Y", "Z", "[">>
AsciiMid == <<"]", "^", "_">>
AsciiHigh == <<"a", "b", "c", "d", "e", "f", "g", "h", "i", "j", "k", "l", "m", "n", "o", "p", "q", "r", "s", "t", "u", "v", "w", "x", "y", "z", "{", "|", "}", "~">>
Position(text, c) == CHOOSE k \in 1..Len(text) : text[k] = c
CharCode(c) ==
  IF \E k \in 1..Len(AsciiLow) : AsciiLow[k] = c THEN 31 + Position(AsciiLow, c)
  ELSE IF \E k \in 1..Len(AsciiMid) : AsciiMid[k] = c THEN 92 + Position(AsciiMid, c)
  ELSE 96 + Position(AsciiHigh, c)
HexDigits == <<"0", "1", "2", "3", "4", "5", "6", "7", "8", "9", "A", "B", "C", "D", "E", "F">>
\* the characters the application/x-www-form-urlencoded serializer leaves as they are
Unreserved == Letters \cup Digits \cup {"*", "-", ".", "_"}
\* one character as URLSearchParams.toString() writes it
PercentEncode(c) ==
  IF c \in Unreserved THEN <<c>>
  ELSE IF c = " " THEN <<"+">>
  ELSE <<"%", HexDigits[(CharCode(c) \div 16) + 1], HexDigits[(CharCode(c) % 16) + 1]>>
RECURSIVE Serialize(_)
Serialize(text) ==
  IF text = <<>> THEN <<>> ELSE PercentEncode(Head(text)) \o Serialize(Tail(text))
\* queryParams.toString() for the name/value pairs set so far
URLSearchParams(pairs) ==
  Join([k \in 1..Len(pairs) |->
          Serialize(pairs[k].name) \o <<"=">> \o Serialize(pairs[k].value)], <<"&">>)

\* `${req.protocol}://${req.get('host')}${req.baseUrl}/Property`
BaseUrl == <<"h", "t", "t", "p", ":", "/", "/", "l", "o", "c", "a", "l", "h", "o", "s", "t", "/", "o", "d", "a", "t", "a", "/", "P", "r", "o", "p", "e", "r", "t", "y">>

nextLinkBuilder_Mutant(baseUrl, query, skip_, top_, totalCount) ==
  IF skip_ + top_ < totalCount
    THEN JsString(baseUrl \o <<"?">> \o URLSearchParams(
           <<Param(<<"$", "t", "o", "p">>, IntToString(top_)),
             Param(<<"$", "s", "k", "i", "p">>, IntToString(skip_ + top_))>>
           \o (IF Truthy(query.select) THEN <<Param(<<"$", "s", "e", "l", "e", "c", "t">>, query.select.s)>> ELSE <<>>)
           \o (IF Truthy(query.orderby) THEN <<Param(<<"$", "o", "r", "d", "e", "r", "b", "y">>, query.orderby.s)>> ELSE <<>>)
           \o (IF Truthy(query.count) THEN <<Param(<<"$", "c", "o", "u", "n", "t">>, query.count.s)>> ELSE <<>>)))
    ELSE JsNull
\* nextLinkBuilder(totalCount), for the baseUrl, query, skip and top it closes over
nextLinkBuilder(baseUrl, query, skip_, top_, totalCount) ==
  IF skip_ + top_ < totalCount
    THEN JsString(baseUrl \o <<"?">> \o URLSearchParams(
           <<Param(<<"$", "t", "o", "p">>, IntToString(top_)),
             Param(<<"$", "s", "k", "i", "p">>, IntToString(skip_ + top_))>>
           \o (IF Truthy(query.select) THEN <<Param(<<"$", "s", "e", "l", "e", "c", "t">>, query.select.s)>> ELSE <<>>)
           \o (IF Truthy(query.filter) THEN <<Param(<<"$", "f", "i", "l", "t", "e", "r">>, query.filter.s)>> ELSE <<>>)
           \o (IF Truthy(query.orderby) THEN <<Param(<<"$", "o", "r", "d", "e", "r", "b", "y">>, query.orderby.s)>> ELSE <<>>)
           \o (IF Truthy(query.count) THEN <<Param(<<"$", "c", "o", "u", "n", "t">>, query.count.s)>> ELSE <<>>)))
    ELSE JsNull

\* the totals a caller hands the closure: none, and those around skip + top
Totals(p) == {0} \cup {n \in (p.skip + p.top - MaxOver)..(p.skip + p.top + MaxOver) : n >= 0}

\* result.nextLinkBuilder(total), called on the plan the Property list built
nextLink ==
  /\ call.route = "list"
  /\ plan.ok
  /\ ~link.called
  /\ \E total \in Totals(plan) :
       link' = [called |-> TRUE, total |-> total,
                url |-> nextLinkBuilder(BaseUrl, call.query, plan.skip, plan.top, total)]
  /\ UNCHANGED <<call, plan, driverVars, authVars>>

Empty == JsString(<<>>)
\* list requests whose options are absent, empty or given
LinkCalls ==
  { Call("list", <<>>, Query(t, s, c, sel, f, o)) :
      t \in {JsUndefined, JsString(<<"0">>), JsString(<<"2">>)},
      s \in {JsUndefined, JsString(<<"3">>)},
      c \in {JsUndefined, Empty, True, JsString(<<"f", "a", "l", "s", "e">>)},
      sel \in {JsUndefined, Empty, JsString(<<"C", "i", "t", "y", ",", "L", "i", "s", "t", "P", "r", "i", "c", "e">>)},
      f \in {JsUndefined, Empty, JsString(<<"C", "i", "t", "y", " ", "e", "q", " ", "'", "a", " ", "b", "'", " ", "a", "n", "d", " ", "L", "i", "s", "t", "P", "r", "i", "c", "e", " ", "g", "t", " ", "1">>),
             JsString(<<"B", "o", "g", "u", "s", " ", "e", "q", " ", "1">>)},
      o \in {JsUndefined, Empty, JsString(<<"C", "i", "t", "y", " ", "d", "e", "s", "c">>)} }

InitLink ==
  /\ call \in LinkCalls
  /\ plan = NoPlan
  /\ link = NoLink
  /\ handler = NoHandler
  /\ queries = <<>>
  /\ res = Unanswered
  /\ CLIENT_ID = Undefined
  /\ CLIENT_SECRET = Undefined
  /\ pool = "null"
  /\ tokens = EmptyTable
  /\ refreshTokens = EmptyTable
  /\ now = 0
  /\ ticks = 0
  /\ issued = {}
  /\ req = IdleReq
  /\ sweeper = IdleSweeper
  /\ expiredSeen = {}
  /\ boot = NotStarted

NextLink ==
  \/ list
  \/ nextLink

SpecLink == InitLink /\ [][NextLink]_vars

\* the character of a code
CharOf(n) ==
  CHOOSE c \in Range(AsciiLow) \cup Range(AsciiMid) \cup Range(AsciiHigh) : CharCode(c) = n
\* the text a form-urlencoded reader gets back: + is a space, %XY a character
RECURSIVE Deserialize(_)
Deserialize(text) ==
  CHOOSE decoded \in
    { IF str = <<>> THEN <<>>
      ELSE IF Head(str) = "+" THEN <<" ">> \o Deserialize(Tail(str))
      ELSE IF Head(str) = "%" /\ Len(str) >= 3
        THEN LET hi == CHOOSE k \in 1..16 : HexDigits[k] = str[2]
                 lo == CHOOSE k \in 1..16 : HexDigits[k] = str[3]
             IN <<CharOf((hi - 1) * 16 + (lo - 1))>> \o Deserialize(SubSeq(str, 4, Len(str)))
      ELSE <<Head(str)>> \o Deserialize(Tail(str)) : str \in {text} } : TRUE
\* the name/value pairs of a query string
PairsOf(text) ==
  UNION { { LET eq == IndexOf(parts[k], "=")
            IN Param(Deserialize(SubSeq(parts[k], 1, eq - 1)),
                     Deserialize(SubSeq(parts[k], eq + 1, Len(parts[k])))) :
            k \in 1..Len(parts) } : parts \in {split(text, "&")} }
OptionNames == << <<"$", "s", "e", "l", "e", "c", "t">>, <<"$", "f", "i", "l", "t", "e", "r">>, <<"$", "o", "r", "d", "e", "r", "b", "y">>, <<"$", "c", "o", "u", "n", "t">> >>
OptionValues(query) == <<query.select, query.filter, query.orderby, query.count>>
\* what the link must carry when the options in `supplied` are propagated
LinkIs(url, supplied) ==
  LET head == BaseUrl \o <<"?">>
  IN /\ url.t = "string"
     /\ SubSeq(url.s, 1, Len(head)) = head
     /\ PairsOf(SubSeq(url.s, Len(head) + 1, Len(url.s))) =
          { Param(<<"$", "t", "o", "p">>, IntToString(plan.top)),
            Param(<<"$", "s", "k", "i", "p">>, IntToString(plan.skip + plan.top)) }
          \cup { Param(OptionNames[k], OptionValues(call.query)[k].s) : k \in supplied }
     /\ Len(split(url.s, "&")) = 2 + Cardinality(supplied)

(* C13 as stated: the closure returns null for every total with             *)
(* skip + top >= total and otherwise baseUrl, '?' and a query string with   *)
(* $top = top, $skip = skip + top and exactly those of $select, $filter,    *)
(* $orderby and $count the request holds, each with its original value.     *)
C13_Original ==
  link.called =>
    IF plan.skip + plan.top >= link.total THEN link.url = JsNull
    ELSE LinkIs(link.url, {k \in 1..4 : OptionValues(call.query)[k].t = "string"})

(* C13 amended: the same, where the options carried are exactly those the   *)
(* request holds with a value that is not empty; an option given as the     *)
(* empty string is left out of the link.                                    *)
C13_NextLink ==
  link.called =>
    IF plan.skip + plan.top >= link.total THEN link.url = JsNull
    ELSE LinkIs(link.url, {k \in 1..4 : /\ OptionValues(call.query)[k].t = "string"
                                         /\ OptionValues(call.query)[k].s # <<>>})

\* a link was built that carries a $filter with quotes and spaces and leaves
\* out an empty $select
C13_Witness ==
  /\ link.called
  /\ link.url.t = "string"
  /\ Contains(link.url.s, <<"%", "2", "4", "f", "i", "l", "t", "e", "r", "=", "C", "i", "t", "y", "+", "e", "q", "+", "%", "2", "7", "a", "+", "b", "%", "2", "7">>)
  /\ call.query.select = Empty
  /\ call.query.count = True
  /\ plan.skip = 3

(***************************************************************************)
(* resources/property.js, member.js, office.js: the entity sets            *)
(***************************************************************************)
property == [name |-> <<"P", "r", "o", "p", "e", "r", "t", "y">>, TABLE |-> TABLE, KEY_FIELD |-> KEY_FIELD,
             fieldMap |-> fieldMap]
member ==
  [name |-> <<"M", "e", "m", "b", "e", "r">>, TABLE |-> <<"i", "d", "c", "_", "a", "g", "y", ".", "A", "G", "Y", "_", "A", "G", "E", "N", "T">>, KEY_FIELD |-> <<"M", "e", "m", "b", "e", "r", "K", "e", "y">>,
   fieldMap |->
     << [key |-> <<"M", "e", "m", "b", "e", "r", "K", "e", "y">>, column |-> <<"A", "G", "E", "N", "T", "K", "E", "Y">>],
        [key |-> <<"M", "e", "m", "b", "e", "r", "M", "l", "s", "I", "d">>, column |-> <<"A", "G", "Y", "A", "G", "E", "N", "T", "I", "D">>],
        [key |-> <<"M", "e", "m", "b", "e", "r", "F", "i", "r", "s", "t", "N", "a", "m", "e">>, column |-> <<"G", "I", "V", "E", "N", "N", "A", "M", "E">>],
        [key |-> <<"M", "e", "m", "b", "e", "r", "M", "i", "d", "d", "l", "e", "N", "a", "m", "e">>, column |-> <<"M", "I", "D", "D", "L", "E", "N", "A", "M", "E">>],
        [key |-> <<"M", "e", "m", "b", "e", "r", "L", "a", "s", "t", "N", "a", "m", "e">>, column |-> <<"S", "U", "R", "N", "A", "M", "E">>],
        [key |-> <<"M", "e", "m", "b", "e", "r", "E", "m", "a", "i", "l">>, column |-> <<"E", "M", "A", "I", "L", "A", "D", "D", "R", "E", "S", "S", "1">>],
        [key |-> <<"M", "e", "m", "b", "e", "r", "M", "o", "b", "i", "l", "e", "P", "h", "o", "n", "e">>, column |-> <<"M", "O", "B", "I", "L", "E", "P", "H", "O", "N", "E">>],
        [key |-> <<"M", "e", "m", "b", "e", "r", "O", "f", "f", "i", "c", "e", "P", "h", "o", "n", "e">>, column |-> <<"B", "U", "S", "I", "N", "E", "S", "S", "P", "H", "O", "N", "E">>],
        [key |-> <<"M", "e", "m", "b", "e", "r", "A", "d", "d", "r", "e", "s", "s", "1">>, column |-> <<"S", "T", "R", "E", "E", "T">>],
        [key |-> <<"M", "e", "m", "b", "e", "r", "C", "i", "t", "y">>, column |-> <<"C", "I", "T", "Y">>],
        [key |-> <<"M", "e", "m", "b", "e", "r", "S", "t", "a", "t", "e", "O", "r", "P", "r", "o", "v", "i", "n", "c", "e">>, column |-> <<"S", "T", "A", "T", "E">>],
        [key |-> <<"M", "e", "m", "b", "e", "r", "P", "o", "s", "t", "a", "l", "C", "o", "d", "e">>, column |-> <<"Z", "I", "P", "C", "O", "D", "E">>],
        [key |-> <<"M", "e", "m", "b", "e", "r", "S", "t", "a", "t", "e", "L", "i", "c", "e", "n", "s", "e">>, column |-> <<"L", "I", "C", "E", "N", "S", "E", "N", "O">>],
        [key |-> <<"M", "e", "m", "b", "e", "r", "T", "i", "t", "l", "e">>, column |-> <<"P", "R", "O", "F", "E", "S", "S", "I", "O", "N", "A", "L", "T", "I", "T", "L", "E">>],
        [key |-> <<"M", "e", "m", "b", "e", "r", "C", "o", "m", "m", "e", "n", "t", "s">>, column |-> <<"B", "I", "O", "G", "R", "A", "P", "H", "Y">>],
        [key |-> <<"M", "e", "m", "b", "e", "r", "P", "h", "o", "t", "o", "U", "R", "L">>, column |-> <<"P", "I", "C", "T", "U", "R", "E">>],
        [key |-> <<"M", "e", "m", "b", "e", "r", "W", "e", "b", "s", "i", "t", "e", "U", "R", "L">>, column |-> <<"A", "G", "E", "N", "T", "P", "R", "O", "F", "I", "L", "E", "U", "R", "L">>],
        [key |-> <<"O", "f", "f", "i", "c", "e", "K", "e", "y">>, column |-> <<"P", "A", "R", "E", "N", "T", "O", "F", "F", "I", "C", "E">>],
        [key |-> <<"M", "o", "d", "i", "f", "i", "c", "a", "t", "i", "o", "n", "T", "i", "m", "e", "s", "t", "a", "m", "p">>, column |-> <<"L", "A", "S", "T", "M", "O", "D", "I", "F", "I", "E", "D">>] >>]
office ==
  [name |-> <<"O", "f", "f", "i", "c", "e">>, TABLE |-> <<"i", "d", "c", "_", "a", "g", "y", ".", "A", "G", "Y", "_", "O", "F", "F", "I", "C", "E">>, KEY_FIELD |-> <<"O", "f", "f", "i", "c", "e", "K", "e", "y">>,
   fieldMap |->
     << [key |-> <<"O", "f", "f", "i", "c", "e", "K", "e", "y">>, column |-> <<"O", "F", "F", "I", "C", "E", "K", "E", "Y">>],
        [key |-> <<"O", "f", "f", "i", "c", "e", "N", "a", "m", "e">>, column |-> <<"O", "F", "F", "I", "C", "E", "N", "A", "M", "E">>],
        [key |-> <<"O", "f", "f", "i", "c", "e", "A", "d", "d", "r", "e", "s", "s", "1">>, column |-> <<"S", "T", "R", "E", "E", "T">>],
        [key |-> <<"O", "f", "f", "i", "c", "e", "C", "i", "t", "y">>, column |-> <<"C", "I", "T", "Y">>],
        [key |-> <<"O", "f", "f", "i", "c", "e", "S", "t", "a", "t", "e", "O", "r", "P", "r", "o", "v", "i", "n", "c", "e">>, column |-> <<"S", "T", "A", "T", "E">>],
        [key |-> <<"O", "f", "f", "i", "c", "e", "P", "o", "s", "t", "a", "l", "C", "o", "d", "e">>, column |-> <<"Z", "I", "P", "C", "O", "D", "E">>],
        [key |-> <<"O", "f", "f", "i", "c", "e", "C", "o", "u", "n", "t", "r", "y">>, column |-> <<"C", "O", "U", "N", "T", "R", "Y">>],
        [key |-> <<"O", "f", "f", "i", "c", "e", "P", "h", "o", "n", "e">>, column |-> <<"P", "H", "O", "N", "E">>],
        [key |-> <<"O", "f", "f", "i", "c", "e", "F", "a", "x">>, column |-> <<"F", "A", "X">>],
        [key |-> <<"O", "f", "f", "i", "c", "e", "E", "m", "a", "i", "l">>, column |-> <<"E", "M", "A", "I", "L", "A", "D", "D", "R", "E", "S", "S", "1">>],
        [key |-> <<"O", "f", "f", "i", "c", "e", "L", "a", "t", "i", "t", "u", "d", "e">>, column |-> <<"I", "D", "C", "L", "A", "T", "I", "T", "U", "D", "E">>],
        [key |-> <<"O", "f", "f", "i", "c", "e", "L", "o", "n", "g", "i", "t", "u", "d", "e">>, column |-> <<"I", "D", "C", "L", "O", "N", "G", "I", "T", "U", "D", "E">>],
        [key |-> <<"M", "o", "d", "i", "f", "i", "c", "a", "t", "i", "o", "n", "T", "i", "m", "e", "s", "t", "a", "m", "p">>, column |-> <<"L", "A", "S", "T", "M", "O", "D", "I", "F", "I", "E", "D">>] >>]
\* the module a route of index.js hands the request to
Resource(set) ==
  CASE set = "Property" -> property
    [] set = "Member" -> member
    [] set = "Office" -> office

\* property.js: what $expand may name, and the field maps of the related rows
ALLOWED_EXPANSIONS == << <<"L", "i", "s", "t", "A", "g", "e", "n", "t">>, <<"L", "i", "s", "t", "O", "f", "f", "i", "c", "e">> >>
memberFieldMap ==
  << [key |-> <<"M", "e", "m", "b", "e", "r", "K", "e", "y">>, column |-> <<"A", "G", "E", "N", "T", "K", "E", "Y">>],
     [key |-> <<"M", "e", "m", "b", "e", "r", "M", "l", "s", "I", "d">>, column |-> <<"A", "G", "Y", "A", "G", "E", "N", "T", "I", "D">>],
     [key |-> <<"M", "e", "m", "b", "e", "r", "F", "i", "r", "s", "t", "N", "a", "m", "e">>, column |-> <<"G", "I", "V", "E", "N", "N", "A", "M", "E">>],
     [key |-> <<"M", "e", "m", "b", "e", "r", "L", "a", "s", "t", "N", "a", "m", "e">>, column |-> <<"S", "U", "R", "N", "A", "M", "E">>],
     [key |-> <<"M", "e", "m", "b", "e", "r", "E", "m", "a", "i", "l">>, column |-> <<"E", "M", "A", "I", "L", "A", "D", "D", "R", "E", "S", "S", "1">>],
     [key |-> <<"M", "e", "m", "b", "e", "r", "M", "o", "b", "i", "l", "e", "P", "h", "o", "n", "e">>, column |-> <<"M", "O", "B", "I", "L", "E", "P", "H", "O", "N", "E">>],
     [key |-> <<"M", "e", "m", "b", "e", "r", "O", "f", "f", "i", "c", "e", "P", "h", "o", "n", "e">>, column |-> <<"B", "U", "S", "I", "N", "E", "S", "S", "P", "H", "O", "N", "E">>] >>
officeFieldMap ==
  << [key |-> <<"O", "f", "f", "i", "c", "e", "K", "e", "y">>, column |-> <<"O", "F", "F", "I", "C", "E", "K", "E", "Y">>],
     [key |-> <<"O", "f", "f", "i", "c", "e", "N", "a", "m", "e">>, column |-> <<"O", "F", "F", "I", "C", "E", "N", "A", "M", "E">>],
     [key |-> <<"O", "f", "f", "i", "c", "e", "C", "i", "t", "y">>, column |-> <<"C", "I", "T", "Y">>],
     [key |-> <<"O", "f", "f", "i", "c", "e", "S", "t", "a", "t", "e", "O", "r", "P", "r", "o", "v", "i", "n", "c", "e">>, column |-> <<"S", "T", "A", "T", "E">>],
     [key |-> <<"O", "f", "f", "i", "c", "e", "P", "h", "o", "n", "e">>, column |-> <<"P", "H", "O", "N", "E">>] >>

(***************************************************************************)
(* Rows and entities.  An object is the sequence of its properties.        *)
(***************************************************************************)
Field(name, value) == [name |-> name, value |-> value]
\* obj[name], undefined when the object has no such property
Prop(obj, name) ==
  IF \E k \in 1..Len(obj) : obj[k].name = name
    THEN obj[CHOOSE k \in 1..Len(obj) : obj[k].name = name].value
    ELSE JsUndefined

transformRow_Mutant(row, map) ==
  LET known == SelectSeq(row, LAMBDA f : /\ \E k \in 1..Len(map) : map[k].column = f.name
                                         /\ f.value # JsNull)
  IN [k \in 1..Len(known) |->
        Field(map[CHOOSE j \in 1..Len(map) : map[j].column = known[k].name].key,
              known[k].value)]
\* parser.js transformRow(row, reverseFieldMap): the columns the map knows,
\* under their RESO names
transformRow(row, map) ==
  LET known == SelectSeq(row, LAMBDA f : \E k \in 1..Len(map) : map[k].column = f.name)
  IN [k \in 1..Len(known) |->
        Field(map[CHOOSE j \in 1..Len(map) : map[j].column = known[k].name].key,
              known[k].value)]

\* encodeListingKey(str): the first 8 bytes of SHA-256, masked to 63 bits, in
\* decimal, for the keys of the rows below; null for a falsy key
encodeListingKey(str) ==
  IF ~Truthy(str) THEN JsNull
  ELSE CASE str.s = <<"P", "1">> -> JsString(<<"8", "9", "2", "9", "2", "0", "4", "0", "2", "9", "5", "8", "5", "0", "7", "7", "9", "1", "2">>)
         [] str.s = <<"P", "2">> -> JsString(<<"3", "2", "2", "3", "3", "7", "1", "4", "5", "5", "7", "5", "3", "5", "0", "6", "0", "2", "8">>)
         [] str.s = <<"P", "3">> -> JsString(<<"2", "2", "7", "6", "6", "6", "1", "6", "4", "3", "9", "4", "6", "7", "7", "1", "4", "8", "1">>)
         [] str.s = <<"P", "4">> -> JsString(<<"6", "9", "4", "0", "4", "7", "4", "4", "6", "9", "3", "3", "7", "0", "1", "0", "8", "5", "9">>)

\* the characters [^<] of the photo pattern
NotLessThan == (Range(AsciiLow) \cup Range(AsciiMid) \cup Range(AsciiHigh)) \ {"<"}
\* the text holds part at position i
StartsAt(text, i, part) ==
  i + Len(part) - 1 <= Len(text) /\ SubSeq(text, i, i + Len(part) - 1) = part
RECURSIVE parsePhotosXML(_, _)
\* parsePhotosXML(xml): the texts matched by /<URL>([^<]+)<\/URL>/g in
\* xml[i..], in document order
parsePhotosXML(xml, i) ==
  IF i > Len(xml) THEN <<>>
  ELSE LET end == ScanWhile(xml, i + 5, NotLessThan)
       IN IF /\ StartsAt(xml, i, <<"<", "U", "R", "L", ">">>)
             /\ end > i + 5
             /\ StartsAt(xml, end, <<"<", "/", "U", "R", "L", ">">>)
            THEN <<SubSeq(xml, i + 5, end - 1)>> \o parsePhotosXML(xml, end + 6)
            ELSE parsePhotosXML(xml, i + 1)
\* crypto.createHash('sha256').update(url).digest('hex').substring(0, 16),
\* for the URLs of the rows below
MediaKey(url) ==
  CASE url = <<"u", "1">> -> <<"b", "b", "8", "2", "0", "3", "0", "d", "b", "c", "2", "b", "c", "a", "b", "a">>
    [] url = <<"u", "2">> -> <<"6", "c", "a", "2", "0", "2", "c", "8", "8", "e", "5", "4", "9", "d", "f", "f">>

\* an entity of a response: its properties, its Media and what $expand attached
Entity(props) == [props |-> props, Media |-> <<>>, ListAgent |-> <<>>, ListOffice |-> <<>>]
\* transformPropertyRow(row): the ListingKey is encoded; a truthy _PhotosXML
\* is parsed into Media and deleted, and Media is [] otherwise
transformPropertyRow(row) ==
  LET result == transformRow(row, fieldMap)
      keyed == [k \in 1..Len(result) |->
                  IF result[k].name = <<"L", "i", "s", "t", "i", "n", "g", "K", "e", "y">> /\ Truthy(result[k].value)
                    THEN Field(result[k].name, encodeListingKey(result[k].value))
                    ELSE result[k]]
      xml == Prop(keyed, <<"_", "P", "h", "o", "t", "o", "s", "X", "M", "L">>)
  IN IF Truthy(xml)
       \* the photo text and the matches are each computed once
       THEN CHOOSE entity \in
              {[Entity(SelectSeq(keyed, LAMBDA f : f.name # <<"_", "P", "h", "o", "t", "o", "s", "X", "M", "L">>)) EXCEPT
                  !.Media = [k \in 1..Len(urls) |->
                               [MediaKey |-> MediaKey(urls[k]),
                                ResourceRecordKey |-> Prop(keyed, <<"L", "i", "s", "t", "i", "n", "g", "K", "e", "y">>),
                                MediaURL |-> urls[k],
                                Order |-> k]]] :
                 urls \in {parsePhotosXML(photos, 1) : photos \in {xml.s}}} : TRUE
       ELSE Entity(keyed)
\* the row => ... the list and get handlers map the recordset with
transform(set, row) ==
  IF set = "Property" THEN transformPropertyRow(row)
  ELSE Entity(transformRow(row, Resource(set).fieldMap))

(***************************************************************************)
(* parser.js parseExpand and property.js expandListAgent, expandListOffice *)
(***************************************************************************)
RECURSIVE Validate(_, _, _)
\* the for loop of parseExpand: the first entry that is not allowed throws
Validate(expansions, allowed, k) ==
  IF k > Len(expansions) THEN [ok |-> TRUE, list |-> expansions, err |-> NoError]
  ELSE IF \A j \in 1..Len(allowed) : allowed[j] # expansions[k]
    THEN [ok |-> FALSE, list |-> <<>>,
          err |-> Error(<<"I", "n", "v", "a", "l", "i", "d", " ", "$", "e", "x", "p", "a", "n", "d", ":", " ">>,
                        expansions[k] \o <<".", " ", "A", "l", "l", "o", "w", "e", "d", ":", " ">> \o Join(allowed, <<",", " ">>))]
  ELSE Validate(expansions, allowed, k + 1)
parseExpand(expand, allowed) ==
  IF ~Truthy(expand) THEN [ok |-> TRUE, list |-> <<>>, err |-> NoError]
  ELSE LET parts == split(expand.s, ",")
       IN Validate([k \in 1..Len(parts) |-> trim(parts[k])], allowed, 1)
\* expansions.includes(name)
includes(list_, name) == \E k \in 1..Len(list_) : list_[k] = name

\* what expandListAgent and expandListOffice differ in
Nav(name) ==
  IF name = "ListAgent"
    THEN [slot |-> "ListAgent", foreignKey |-> <<"L", "i", "s", "t", "A", "g", "e", "n", "t", "K", "e", "y">>, key |-> <<"M", "e", "m", "b", "e", "r", "K", "e", "y">>,
          param |-> <<"a", "g", "e", "n", "t">>, table |-> <<"i", "d", "c", "_", "a", "g", "y", ".", "A", "G", "Y", "_", "A", "G", "E", "N", "T">>,
          column |-> <<"A", "G", "E", "N", "T", "K", "E", "Y">>, fieldMap |-> memberFieldMap]
    ELSE [slot |-> "ListOffice", foreignKey |-> <<"L", "i", "s", "t", "O", "f", "f", "i", "c", "e", "K", "e", "y">>, key |-> <<"O", "f", "f", "i", "c", "e", "K", "e", "y">>,
          param |-> <<"o", "f", "f", "i", "c", "e">>, table |-> <<"i", "d", "c", "_", "a", "g", "y", ".", "A", "G", "Y", "_", "O", "F", "F", "I", "C", "E">>,
          column |-> <<"O", "F", "F", "I", "C", "E", "K", "E", "Y">>, fieldMap |-> officeFieldMap]

RECURSIVE Distinct(_)
\* [...new Set(values)]: each value once, in the order of its first occurrence
Distinct(values) ==
  IF values = <<>> THEN <<>>
  ELSE LET front == Distinct(SubSeq(values, 1, Len(values) - 1))
           last == values[Len(values)]
       IN IF \E k \in 1..Len(front) : front[k] = last THEN front ELSE Append(front, last)
foreignKeys_Mutant(properties, nav) ==
  SelectSeq([k \in 1..Len(properties) |-> Prop(properties[k].props, nav.foreignKey)],
            Truthy)
\* [...new Set(properties.map(p => p.ListAgentKey).filter(Boolean))]
foreignKeys(properties, nav) ==
  Distinct(SelectSeq([k \in 1..Len(properties) |->
                        Prop(properties[k].props, nav.foreignKey)], Truthy))

\* one call of db.query and what became of it
DbCall(kind, sql, params) ==
  [kind |-> kind, sql |-> sql, params |-> params, state |-> "pending",
   recordset |-> <<>>, error |-> [message |-> <<>>, code |-> JsUndefined,
                                  status |-> JsUndefined], at |-> 0]
\* the SELECT ... WHERE <column> IN (@agent0, ...) of an expansion
expandQuery(nav, keys) ==
  DbCall(nav.slot,
         <<"S", "E", "L", "E", "C", "T", " ">> \o Join(Values(nav.fieldMap), <<",", " ">>) \o
         <<"\n", " ", " ", " ", " ", " ", "F", "R", "O", "M", " ">> \o nav.table \o
         <<"\n", " ", " ", " ", " ", " ", "W", "H", "E", "R", "E", " ">> \o nav.column \o <<" ", "I", "N", " ", "(">> \o
         Join([k \in 1..Len(keys) |-> <<"@">> \o nav.param \o NatToString(k - 1)], <<",", " ">>)
         \o <<")">>,
         [k \in 1..Len(keys) |-> Param(nav.param \o NatToString(k - 1), keys[k])])
\* agentMap.set(...) for every row, then p.ListAgent = agentMap.get(p.ListAgentKey)
\* for every parent whose key is truthy and in the map
attach(properties, nav, recordset) ==
  LET related == [k \in 1..Len(recordset) |-> transformRow(recordset[k], nav.fieldMap)]
      rowsOf(key) == {k \in 1..Len(related) : Prop(related[k], nav.key) = key}
      last(key) == CHOOSE k \in rowsOf(key) : \A j \in rowsOf(key) : j <= k
  IN [k \in 1..Len(properties) |->
        LET key == Prop(properties[k].props, nav.foreignKey)
        IN IF Truthy(key) /\ rowsOf(key) # {}
             THEN [properties[k] EXCEPT ![nav.slot] = <<related[last(key)]>>]
             ELSE properties[k]]

(***************************************************************************)
(* The database behind db.query(sql, params): an opaque gateway that       *)
(* answers every call, some time after it was made, with a recordset or    *)
(* with an error.                                                          *)
(***************************************************************************)
PropertyRow(key, agentKey, officeKey, photos) ==
  << Field(<<"I", "D", "C", "P", "R", "O", "P", "E", "R", "T", "Y", "I", "D">>, JsString(key)), Field(<<"C", "I", "T", "Y">>, JsString(<<"L", "A">>)),
     Field(<<"I", "D", "C", "L", "I", "S", "T", "A", "G", "E", "N", "T", "K", "E", "Y">>, agentKey), Field(<<"I", "D", "C", "L", "I", "S", "T", "O", "F", "F", "I", "C", "E", "K", "E", "Y">>, officeKey) >> \o
  (IF photos = JsUndefined THEN <<>> ELSE <<Field(<<"P", "R", "O", "P", "E", "R", "T", "Y", "P", "H", "O", "T", "O", "S">>, photos)>>)
\* the rows of the backend table of an entity set; the photo column holds XML,
\* null or '', or is not in the row
Rows(set) ==
  CASE set = "Property" ->
         << PropertyRow(<<"P", "1">>, JsNumber(7), JsNumber(9),
                        JsString(<<"<", "P", ">", "<", "U", "R", "L", ">", "u", "1", "<", "/", "U", "R", "L", ">", "<", "U", "R", "L", ">", "<", "/", "U", "R", "L", ">", "<", "U", "R", "L", ">", "u", "2", "<", "/", "U", "R", "L", ">", "<", "/", "P", ">">>)),
            PropertyRow(<<"P", "2">>, JsNumber(7), JsNull, JsNull),
            PropertyRow(<<"P", "3">>, JsNumber(0), JsNumber(8), Empty),
            PropertyRow(<<"P", "4">>, JsNumber(8), JsNumber(9), JsUndefined) >>
    [] set = "Member" ->
         << <<Field(<<"A", "G", "E", "N", "T", "K", "E", "Y">>, JsNumber(7)), Field(<<"G", "I", "V", "E", "N", "N", "A", "M", "E">>, JsString(<<"J", "o", "h", "n">>))>>,
            <<Field(<<"A", "G", "E", "N", "T", "K", "E", "Y">>, JsNumber(8)), Field(<<"G", "I", "V", "E", "N", "N", "A", "M", "E">>, JsString(<<"J", "a", "n", "e">>))>> >>
    [] set = "Office" ->
         << <<Field(<<"O", "F", "F", "I", "C", "E", "K", "E", "Y">>, JsNumber(9)), Field(<<"O", "F", "F", "I", "C", "E", "N", "A", "M", "E">>, JsString(<<"M", "a", "i", "n">>))>>,
            <<Field(<<"O", "F", "F", "I", "C", "E", "K", "E", "Y">>, JsNumber(8)), Field(<<"O", "F", "F", "I", "C", "E", "N", "A", "M", "E">>, JsString(<<"W", "e", "s", "t">>))>> >>

RECURSIVE PickFrom(_, _, _)
\* the rows at the positions in S, in table order
PickFrom(rows, S, k) ==
  IF k > Len(rows) THEN <<>>
  ELSE (IF k \in S THEN <<rows[k]>> ELSE <<>>) \o PickFrom(rows, S, k + 1)

\* the recordsets a call can be answered with: a key lookup gets the rows of
\* that key from OFFSET skip on, up to top; a list any rows of the table up to
\* top, a count any total, an
\* expansion the related rows of any of the keys asked for
Recordsets(q) ==
  CASE q.kind = "data" ->
         LET rows == Rows(call.set)
             resource == Resource(call.set)
             column == Lookup(resource.fieldMap, resource.KEY_FIELD)
             keyed == \E k \in 1..Len(q.params) : q.params[k].name = <<"k", "e", "y", "V", "a", "l", "u", "e">>
             found == PickFrom(rows, {k \in 1..Len(rows) :
                                        Prop(rows[k], column) = Prop(q.params, <<"k", "e", "y", "V", "a", "l", "u", "e">>)}, 1)
         IN IF keyed
              THEN { IF plan.skip >= Len(found) THEN <<>>
                     ELSE SubSeq(found, plan.skip + 1,
                                 Min(Len(found), plan.skip + plan.top)) }
              ELSE { PickFrom(rows, S, 1) :
                       S \in {S \in SUBSET (1..Len(rows)) :
                                Cardinality(S) <= Min(MaxRows, plan.top)} }
    [] q.kind = "count" ->
         { << <<Field(<<"t", "o", "t", "a", "l">>, JsNumber(n))>> >> : n \in Totals(plan) }
    [] OTHER ->
         { PickFrom([k \in 1..Len(q.params) |->
                       << Field(Nav(q.kind).column, q.params[k].value),
                          Field(<<"C", "I", "T", "Y">>, JsString(<<"L", "A">>)) >>], S, 1) :
             S \in SUBSET (1..Len(q.params)) }
\* the errors a call can be answered with
DbErrors ==
  { [message |-> <<"D", "a", "t", "a", "b", "a", "s", "e", " ", "c", "o", "n", "n", "e", "c", "t", "i", "o", "n", " ", "f", "a", "i", "l", "e", "d">>, code |-> JsUndefined,
     status |-> JsUndefined],
    [message |-> <<"C", "o", "n", "n", "e", "c", "t", "i", "o", "n", " ", "l", "o", "s", "t">>, code |-> JsString(<<"E", "S", "O", "C", "K", "E", "T">>),
     status |-> JsUndefined] }

Settled == Cardinality({i \in 1..Len(queries) : queries[i].state # "pending"})
\* the promise of a db.query call is fulfilled
resolves ==
  /\ \E i \in 1..Len(queries) :
       /\ queries[i].state = "pending"
       /\ \E rs \in Recordsets(queries[i]) :
            queries' = [queries EXCEPT ![i] = [@ EXCEPT !.state = "fulfilled",
                                                        !.recordset = rs,
                                                        !.at = Settled + 1]]
  /\ UNCHANGED <<handler, res, call, plan, link, authVars>>
\* the promise of a db.query call is rejected
rejects ==
  /\ \E i \in 1..Len(queries) :
       /\ queries[i].state = "pending"
       /\ \E e \in DbErrors :
            queries' = [queries EXCEPT ![i] = [@ EXCEPT !.state = "rejected",
                                                        !.error = e,
                                                        !.at = Settled + 1]]
  /\ UNCHANGED <<handler, res, call, plan, link, authVars>>

(***************************************************************************)
(* index.js: the error handler; resources/*.js: list and get               *)
(***************************************************************************)
\* the Error a parser function threw
ErrorOf(err) ==
  [message |-> err.prefix \o err.msg \o err.arg, code |-> JsUndefined,
   status |-> JsUndefined]
errorHandler_Mutant(err) ==
  [Unanswered EXCEPT
     !.sent = TRUE,
     !.status = IF Truthy(err.status) THEN err.status.n ELSE 500,
     !.error = [code |-> <<"S", "e", "r", "v", "e", "r", "E", "r", "r", "o", "r">>, message |-> err.message]]
\* router.use((err, req, res, next) => ...)
errorHandler(err) ==
  [Unanswered EXCEPT
     !.sent = TRUE,
     !.status = IF Truthy(err.status) THEN err.status.n ELSE 500,
     !.error = [code |-> IF Truthy(err.code) THEN err.code.s ELSE <<"S", "e", "r", "v", "e", "r", "E", "r", "r", "o", "r">>,
                message |-> err.message]]

\* the options a resource hands buildQuery
OptionsOf(resource, query, keyValue) ==
  [table |-> resource.TABLE, fieldMap |-> resource.fieldMap, query |-> query,
   keyField |-> resource.KEY_FIELD, keyValue |-> keyValue]
\* `${baseUrl}/$metadata#Property` and `${baseUrl}/$metadata#Property/$entity`
Context(resource, route) ==
  <<"h", "t", "t", "p", ":", "/", "/", "l", "o", "c", "a", "l", "h", "o", "s", "t", "/", "o", "d", "a", "t", "a", "/", "$", "m", "e", "t", "a", "d", "a", "t", "a", "#">> \o resource.name \o
  (IF route = "get" THEN <<"/", "$", "e", "n", "t", "i", "t", "y">> ELSE <<>>)
\* `${key}`
ToText(v) == IF v.t = "number" THEN IntToString(v.n) ELSE v.s

\* the response of a list: @odata.context, @odata.count when there is a count
\* result, @odata.nextLink when the next-link closure exists and gives a link,
\* value; the response of a get: the entity and its @odata.context
Envelope(h) ==
  [Unanswered EXCEPT
     !.sent = TRUE,
     !.status = 200,
     !.context = Context(Resource(call.set), call.route),
     !.count = IF call.route = "list" /\ h.countResult # JsNull
                 THEN h.countResult ELSE JsUndefined,
     !.nextLink =
       IF call.route = "list" /\ h.countResult # JsNull /\ call.set = "Property"
         THEN LET nextLink_ == nextLinkBuilder(BaseUrl, call.query, plan.skip,
                                               plan.top, h.countResult.n)
              IN IF Truthy(nextLink_) THEN nextLink_ ELSE JsUndefined
         ELSE JsUndefined,
     !.value = h.value]

Outcome(h, qs, r) == [handler |-> h, queries |-> qs, res |-> r]
After_Mutant(stage, h, qs) ==
  LET agentKeys == foreignKeys(h.value, Nav("ListAgent"))
      officeKeys == foreignKeys(h.value, Nav("ListOffice"))
  IN IF /\ stage = "ListAgent"
        /\ includes(h.expansions, <<"L", "i", "s", "t", "A", "g", "e", "n", "t">>)
        /\ h.value # <<>>
        /\ agentKeys # <<>>
       THEN Outcome([h EXCEPT !.pc = "ListOffice"],
                    qs \o <<expandQuery(Nav("ListAgent"), agentKeys)>> \o
                    (IF includes(h.expansions, <<"L", "i", "s", "t", "O", "f", "f", "i", "c", "e">>) /\ officeKeys # <<>>
                       THEN <<expandQuery(Nav("ListOffice"), officeKeys)>>
                       ELSE <<>>), res)
     ELSE IF /\ includes(h.expansions, <<"L", "i", "s", "t", "O", "f", "f", "i", "c", "e">>)
             /\ h.value # <<>>
             /\ officeKeys # <<>>
       THEN Outcome([h EXCEPT !.pc = "ListOffice"],
                    Append(qs, expandQuery(Nav("ListOffice"), officeKeys)), res)
     ELSE Outcome([h EXCEPT !.pc = "done"], qs, Envelope(h))
\* the handler from `if (expansions.includes('ListAgent'))` or from
\* `if (expansions.includes('ListOffice'))` on, up to its next await or its
\* response
After(stage, h, qs) ==
  \* the handler's state is computed once
  CHOOSE outcome \in
    {LET agentKeys == foreignKeys(hd.value, Nav("ListAgent"))
         officeKeys == foreignKeys(hd.value, Nav("ListOffice"))
     IN IF /\ stage = "ListAgent"
           /\ includes(hd.expansions, <<"L", "i", "s", "t", "A", "g", "e", "n", "t">>)
           /\ hd.value # <<>>
           /\ agentKeys # <<>>
          THEN Outcome([hd EXCEPT !.pc = "ListAgent"],
                       Append(qs, expandQuery(Nav("ListAgent"), agentKeys)), res)
        ELSE IF /\ includes(hd.expansions, <<"L", "i", "s", "t", "O", "f", "f", "i", "c", "e">>)
                /\ hd.value # <<>>
                /\ officeKeys # <<>>
          THEN Outcome([hd EXCEPT !.pc = "ListOffice"],
                       Append(qs, expandQuery(Nav("ListOffice"), officeKeys)), res)
        ELSE Outcome([hd EXCEPT !.pc = "done"], qs, Envelope(hd)) : hd \in {h}} : TRUE
\* catch (err) { next(err) }
Caught(err) == Outcome([handler EXCEPT !.pc = "done"], queries, errorHandler(err))
\* a step of the handler; when it ends, the number of calls that have settled
\* by then is kept
Becomes(outcome) ==
  \E o \in {outcome} :
    /\ handler' = IF o.handler.pc = "done"
                    THEN [o.handler EXCEPT !.settled = Settled]
                    ELSE o.handler
    /\ queries' = o.queries
    /\ res' = o.res
    /\ UNCHANGED <<call, link, authVars>>

\* $expand is parsed by the Property handlers only
Expansions ==
  IF call.set = "Property" THEN parseExpand(call.expand, ALLOWED_EXPANSIONS)
  ELSE [ok |-> TRUE, list |-> <<>>, err |-> NoError]

\* list(req, res, next) up to `await Promise.all([...])`
listIssue ==
  /\ call.route = "list"
  /\ handler.pc = "idle"
  /\ \E built \in {buildQuery(OptionsOf(Resource(call.set), call.query, JsUndefined))} :
        IF ~Expansions.ok
          THEN plan' = plan /\ Becomes(Caught(ErrorOf(Expansions.err)))
        ELSE IF ~built.ok
          THEN plan' = built /\ Becomes(Caught(ErrorOf(built.err)))
        ELSE /\ plan' = built
             /\ Becomes(Outcome(
                  [handler EXCEPT !.pc = "all", !.expansions = Expansions.list],
                  <<DbCall("data", built.dataQuery, built.params)>> \o
                  (IF built.hasCount
                     THEN <<DbCall("count", built.countQuery, built.params)>>
                     ELSE <<>>),
                  res))

\* the promises that were rejected, and the one rejected first
RejectedIn(qs) == {i \in 1..Len(qs) : qs[i].state = "rejected"}
FirstRejectedIn(qs) ==
  CHOOSE i \in RejectedIn(qs) : \A j \in RejectedIn(qs) : qs[i].at <= qs[j].at
RejectedCalls == RejectedIn(queries)
FirstRejectedCall == FirstRejectedIn(queries)

\* list from the settling of `await Promise.all([...])` on, for the calls qs:
\* the await throws the first rejection; otherwise the rows are transformed
\* and the handler goes on to the expansions
Awaited(h, qs) ==
  IF RejectedIn(qs) # {} THEN Caught(qs[FirstRejectedIn(qs)].error)
  ELSE LET recordset == qs[1].recordset
           value == [k \in 1..Len(recordset) |-> transform(call.set, recordset[k])]
           countResult == IF Len(qs) = 2
                            THEN Prop(qs[2].recordset[1], <<"t", "o", "t", "a", "l">>)
                            ELSE JsNull
       IN After("ListAgent",
                [h EXCEPT !.value = value, !.countResult = countResult], qs)

listAwaited_Mutant ==
  /\ handler.pc \in {"all", "done"}
  /\ call.route = "list"
  /\ queries # <<>>
  /\ plan' = plan
  /\ \/ /\ RejectedCalls # {}
        /\ Becomes(Caught(queries[CHOOSE i \in RejectedCalls :
                                    \A j \in RejectedCalls : queries[i].at >= queries[j].at].error))
     \/ /\ \A i \in 1..Len(queries) : queries[i].state = "fulfilled"
        /\ handler.pc = "all"
        /\ Becomes(Awaited(handler, queries))
\* Promise.all settles: it rejects with the first rejection, and is
\* fulfilled when the data and the count query are
listAwaited ==
  /\ handler.pc = "all"
  /\ plan' = plan
  /\ \/ RejectedCalls # {}
     \/ \A i \in 1..Len(queries) : queries[i].state = "fulfilled"
  /\ Becomes(Awaited(handler, queries))

\* the key of the route: quotes stripped, and for Member and Office
\* parseInt(key) || key
keyOf(set, key) ==
  LET stripped == JsString(stripQuotes(key))
  IN IF set # "Property" /\ Truthy(parseInt(stripped)) THEN parseInt(stripped)
     ELSE stripped

\* get(req, res, next) up to `await db.query(dataQuery, params)`
getIssue ==
  /\ call.route = "get"
  /\ handler.pc = "idle"
  /\ LET key == keyOf(call.set, call.key)
         built == buildQuery(OptionsOf(Resource(call.set), call.query, key))
     IN IF ~Expansions.ok
          THEN plan' = plan /\ Becomes(Caught(ErrorOf(Expansions.err)))
        ELSE IF ~built.ok
          THEN plan' = built /\ Becomes(Caught(ErrorOf(built.err)))
        ELSE /\ plan' = built
             /\ Becomes(Outcome(
                  [handler EXCEPT !.pc = "one", !.expansions = Expansions.list,
                                  !.key = key],
                  <<DbCall("data", built.dataQuery, built.params)>>, res))

getAwaited_Mutant ==
  /\ handler.pc = "one"
  /\ queries[1].state # "pending"
  /\ plan' = plan
  /\ IF queries[1].state = "rejected" THEN Becomes(Caught(queries[1].error))
     ELSE IF queries[1].recordset = <<>>
       THEN Becomes(Outcome(
              [handler EXCEPT !.pc = "done"], queries,
              [Unanswered EXCEPT
                 !.sent = TRUE, !.status = 404,
                 !.error = [code |-> <<"N", "o", "t", "F", "o", "u", "n", "d">>,
                            message |-> Resource(call.set).name \o <<" ", "w", "i", "t", "h", " ", "k", "e", "y", " ", "'">> \o
                                        ToText(handler.key) \o <<"'", " ", "n", "o", "t", " ", "f", "o", "u", "n", "d">>]]))
     ELSE Becomes(After("ListAgent",
                        [handler EXCEPT
                           !.value = <<transform(call.set, queries[1].recordset[Len(queries[1].recordset)])>>],
                        queries))
\* get from the answer of its query on: 404 for an empty recordset
getAwaited ==
  /\ handler.pc = "one"
  /\ queries[1].state # "pending"
  /\ plan' = plan
  /\ IF queries[1].state = "rejected" THEN Becomes(Caught(queries[1].error))
     ELSE IF queries[1].recordset = <<>>
       THEN Becomes(Outcome(
              [handler EXCEPT !.pc = "done"], queries,
              [Unanswered EXCEPT
                 !.sent = TRUE, !.status = 404,
                 !.error = [code |-> <<"N", "o", "t", "F", "o", "u", "n", "d">>,
                            message |-> Resource(call.set).name \o <<" ", "w", "i", "t", "h", " ", "k", "e", "y", " ", "'">> \o
                                        ToText(handler.key) \o <<"'", " ", "n", "o", "t", " ", "f", "o", "u", "n", "d">>]]))
     ELSE Becomes(After("ListAgent",
                        [handler EXCEPT
                           !.value = <<transform(call.set, queries[1].recordset[1])>>],
                        queries))

\* expandListAgent from the answer of its query on, and the handler up to
\* its next await or its response
expandListAgent ==
  /\ handler.pc = "ListAgent"
  /\ queries[Len(queries)].state # "pending"
  /\ plan' = plan
  /\ LET q == queries[Len(queries)]
     IN IF q.state = "rejected" THEN Becomes(Caught(q.error))
        ELSE Becomes(After("ListOffice",
                           [handler EXCEPT
                              !.value = attach(@, Nav("ListAgent"), q.recordset)],
                           queries))

\* expandListOffice from the answer of its query on, and the response
expandListOffice ==
  /\ handler.pc = "ListOffice"
  /\ queries[Len(queries)].state # "pending"
  /\ plan' = plan
  /\ LET q == queries[Len(queries)]
     IN IF q.state = "rejected" THEN Becomes(Caught(q.error))
        ELSE \E h \in {[handler EXCEPT
                           !.value = attach(@, Nav("ListOffice"), q.recordset)]} :
               Becomes(Outcome([h EXCEPT !.pc = "done"], queries, Envelope(h)))

\* one request to a route of index.js
Request(set, route, key, query, expand) ==
  [set |-> set, route |-> route, key |-> key, query |-> query, expand |-> expand]
Sets == {"Property", "Member", "Office"}
\* list requests of every entity set, with and without $count, $top, $skip
\* and $filter
CountRequests ==
  { Request(s, "list", <<>>,
            [NoQuery EXCEPT !.count = c, !.top = t, !.skip = k, !.filter = f],
            JsUndefined) :
      s \in Sets,
      c \in {JsUndefined, True, JsString(<<"f", "a", "l", "s", "e">>)},
      t \in {JsUndefined, JsString(<<"1">>)},
      k \in {JsUndefined, JsString(<<"1">>)},
      f \in {JsUndefined, JsString(<<"M", "o", "d", "i", "f", "i", "c", "a", "t", "i", "o", "n", "T", "i", "m", "e", "s", "t", "a", "m", "p", " ", "g", "t", " ", "2", "0", "2", "4", "-", "0", "1", "-", "1", "5">>),
             JsString(<<"B", "o", "g", "u", "s", " ", "e", "q", " ", "1">>)} }
\* Property requests with $expand
ExpandRequests ==
  { Request("Property", r.route, r.key, [NoQuery EXCEPT !.count = c], e) :
      r \in { [route |-> "list", key |-> <<>>], [route |-> "get", key |-> <<"'", "P", "1", "'">>],
              [route |-> "get", key |-> <<"'", "P", "3", "'">>] },
      c \in {JsUndefined, True},
      e \in { Empty, JsString(<<"L", "i", "s", "t", "A", "g", "e", "n", "t">>), JsString(<<"L", "i", "s", "t", "O", "f", "f", "i", "c", "e">>),
              JsString(<<"L", "i", "s", "t", "A", "g", "e", "n", "t", ",", "L", "i", "s", "t", "O", "f", "f", "i", "c", "e">>), JsString(<<"L", "i", "s", "t", "O", "f", "f", "i", "c", "e", ",", " ", "L", "i", "s", "t", "A", "g", "e", "n", "t">>),
              JsString(<<"B", "o", "g", "u", "s">>) } }
\* key lookups of every entity set
KeyRequests ==
  { Request(s, "get", k, [NoQuery EXCEPT !.filter = f], JsUndefined) :
      s \in Sets,
      k \in { <<"'", "P", "1", "'">>, <<"P", "2">>, <<"'", "N", "O", "T", "F", "O", "U", "N", "D", "'">>, <<"'", "7", "'">>, <<"8">>, <<"'", "'">> },
      f \in {JsUndefined, JsString(<<"B", "o", "g", "u", "s", " ", "e", "q", " ", "1">>)} }
\* key lookups of rows that exist, with $top and $skip
PagedRequests ==
  { Request(r.set, "get", r.key, [NoQuery EXCEPT !.top = t, !.skip = k],
            JsUndefined) :
      r \in { [set |-> "Property", key |-> <<"'", "P", "1", "'">>], [set |-> "Member", key |-> <<"7">>],
              [set |-> "Office", key |-> <<"'", "9", "'">>] },
      t \in {JsUndefined, JsString(<<"0">>), JsString(<<"1">>), JsString(<<"5">>)},
      k \in {JsUndefined, JsString(<<"0">>), JsString(<<"1">>), JsString(<<"-", "1">>)} }
\* Property key lookups with the ListingKey a list returned
EncodedRequests ==
  { Request("Property", "get", <<"'">> \o encodeListingKey(JsString(k)).s \o <<"'">>,
            NoQuery, e) :
      k \in { <<"P", "1">>, <<"P", "2">>, <<"P", "3">> },
      e \in { JsUndefined, JsString(<<"L", "i", "s", "t", "A", "g", "e", "n", "t">>) } }
\* requests whose $select or $orderby is refused
RefusedRequests ==
  { Request(s, r.route, r.key, [NoQuery EXCEPT !.select = sel, !.orderby = o],
            JsUndefined) :
      s \in Sets,
      r \in { [route |-> "list", key |-> <<>>], [route |-> "get", key |-> <<"'", "P", "1", "'">>] },
      sel \in {JsUndefined, JsString(<<"B", "o", "g", "u", "s">>)},
      o \in {JsUndefined, JsString(<<"B", "o", "g", "u", "s", " ", "d", "e", "s", "c">>)} }

\* a request arrives at a resource route; the token service stays idle
InitDriver ==
  /\ \/ call \in CountRequests
     \/ call \in ExpandRequests
     \/ call \in KeyRequests
     \/ call \in EncodedRequests
     \/ call \in PagedRequests
     \/ call \in RefusedRequests
  /\ plan = NoPlan
  /\ link = NoLink
  /\ handler = NoHandler
  /\ queries = <<>>
  /\ res = Unanswered
  /\ CLIENT_ID = Undefined
  /\ CLIENT_SECRET = Undefined
  /\ pool = "null"
  /\ tokens = EmptyTable
  /\ refreshTokens = EmptyTable
  /\ now = 0
  /\ ticks = 0
  /\ issued = {}
  /\ req = IdleReq
  /\ sweeper = IdleSweeper
  /\ expiredSeen = {}
  /\ boot = NotStarted

NextDriver ==
  \/ listIssue
  \/ listAwaited
  \/ getIssue
  \/ getAwaited
  \/ expandListAgent
  \/ expandListOffice
  \/ resolves
  \/ rejects

SpecDriver == InitDriver /\ [][NextDriver]_vars

\* Property list requests with and without $count and $expand, every call of
\* which is answered, and whose handler runs when it can
ListRequests == {c \in ExpandRequests : c.route = "list"}
InitList == call \in ListRequests /\ InitDriver
NextList ==
  \/ listIssue
  \/ listAwaited
  \/ expandListAgent
  \/ expandListOffice
  \/ resolves
  \/ rejects
SpecListFair == InitList /\ [][NextList]_vars /\ WF_vars(NextList)

(***************************************************************************)
(* Properties of the resource drivers.                                     *)
(***************************************************************************)
\* the db.query calls of a kind, by their position in the order of the calls
CallsOf(kind) == {i \in 1..Len(queries) : queries[i].kind = kind}
Issued == handler.pc # "idle"

(* C11: the plan has a count query exactly when $count is the string 'true'; *)
(* its WHERE line is then the WHERE line of the data query (both empty when  *)
(* there is none); and a list runs the data query, and the count query when  *)
(* there is one, with the params of the plan, and no count query otherwise.  *)
C11_CountQuery ==
  plan.ok =>
    /\ plan.hasCount <=> call.query.count = True
    /\ ~plan.hasCount => plan.countQuery = <<>>
    /\ plan.hasCount =>
         /\ Len(Lines(plan.countQuery)) = 5
         /\ Lines(plan.countQuery)[4] = Lines(plan.dataQuery)[4]
    /\ (call.route = "list" /\ Issued) =>
         /\ CallsOf("data") = {1}
         /\ queries[1].sql = plan.dataQuery
         /\ queries[1].params = plan.params
         /\ CallsOf("count") = IF plan.hasCount THEN {2} ELSE {}
         /\ plan.hasCount =>
              /\ queries[2].sql = plan.countQuery
              /\ queries[2].params = queries[1].params

\* a list with $count=true and a $filter ran both queries, with a WHERE clause
C11_Witness ==
  /\ plan.ok
  /\ call.route = "list"
  /\ Len(queries) = 2
  /\ queries[2].state = "fulfilled"
  /\ Len(plan.params) = 1
  /\ Contains(queries[2].sql, <<"W", "H", "E", "R", "E", " ", "L", "A", "S", "T", "M", "O", "D", "I", "F", "I", "E", "D", " ", ">", " ", "@", "f", "i", "l", "t", "e", "r", "0">>)

\* the total of the count result, and whether it lies beyond the page
Total == Prop(queries[2].recordset[1], <<"t", "o", "t", "a", "l">>).n
Answered(status) == res.sent /\ res.status = status
(* C14: for each of Property, Member and Office a list response holds       *)
(* @odata.count exactly when $count=true, and @odata.nextLink exactly when  *)
(* $count=true and the total of the count query is above skip + top; the    *)
(* link then has $skip = skip + top.                                        *)
C14_CountAndNextLink ==
  (call.route = "list" /\ Answered(200)) =>
    /\ res.count # JsUndefined <=> call.query.count = True
    /\ res.nextLink # JsUndefined <=>
         (call.query.count = True /\ Total > plan.skip + plan.top)
    /\ res.nextLink # JsUndefined =>
         Param(<<"$", "s", "k", "i", "p">>, IntToString(plan.skip + plan.top)) \in
           PairsOf(SubSeq(res.nextLink.s, Len(BaseUrl) + 2, Len(res.nextLink.s)))

(* C14 for Property alone, and for Member and Office without a link: a      *)
(* Property list response is as C14 says; a Member or Office list response  *)
(* holds @odata.count exactly when $count=true and never @odata.nextLink.   *)
C14_PropertyOnly ==
  (call.route = "list" /\ Answered(200)) =>
    /\ res.count # JsUndefined <=> call.query.count = True
    /\ res.count # JsUndefined => res.count = JsNumber(Total)
    /\ res.nextLink # JsUndefined <=>
         /\ call.set = "Property"
         /\ call.query.count = True
         /\ Total > plan.skip + plan.top
    /\ res.nextLink # JsUndefined =>
         Param(<<"$", "s", "k", "i", "p">>, IntToString(plan.skip + plan.top)) \in
           PairsOf(SubSeq(res.nextLink.s, Len(BaseUrl) + 2, Len(res.nextLink.s)))

\* a Member list was answered with a count that lies beyond the page
C14_MemberPage ==
  /\ call.route = "list" /\ Answered(200)
  /\ call.set = "Member"
  /\ call.query.count = True
  /\ Total > plan.skip + plan.top

\* the request is accepted by parseExpand and buildQuery
Accepted ==
  /\ Expansions.ok
  /\ buildQuery(OptionsOf(Resource(call.set), call.query,
                          IF call.route = "get" THEN keyOf(call.set, call.key)
                          ELSE JsUndefined)).ok
\* the backend keys of the Property rows
BackendKeys ==
  {Prop(Rows("Property")[i], <<"I", "D", "C", "P", "R", "O", "P", "E", "R", "T", "Y", "I", "D">>) : i \in 1..Len(Rows("Property"))}
\* the path key is not the decimal text the key codec produces (and not a
\* backend key either)
Undecodable(key) ==
  /\ key = <<>> \/ \E k \in 1..Len(key) : key[k] \notin Digits
  /\ JsString(key) \notin BackendKeys

(* C15: GET /Property(<k>) with a key that is not an encoded key (one that  *)
(* is not a number, such as 'NOTFOUND') is answered 404 with code NotFound  *)
(* and no db.query call is made for it.                                     *)
C15_UndecodableKey ==
  (/\ call.set = "Property" /\ call.route = "get"
   /\ Undecodable(stripQuotes(call.key))
   /\ Accepted /\ Issued) =>
    /\ queries = <<>>
    /\ Answered(404)
    /\ res.error.code = <<"N", "o", "t", "F", "o", "u", "n", "d">>

\* GET /Property('NOTFOUND') was answered
C15_NotFoundKey ==
  /\ call.set = "Property" /\ call.route = "get"
  /\ stripQuotes(call.key) = <<"N", "O", "T", "F", "O", "U", "N", "D">>
  /\ Accepted
  /\ res.sent

\* the backend keys whose encoded form is the path key
Encoded(key) == {k \in BackendKeys : encodeListingKey(k).s = key}
(* C16: a Property list returns for every row of backend key k the          *)
(* ListingKey encode(k); and GET /Property('<encode(k)>') makes its lookup  *)
(* with params.keyValue = k and is answered with the entity whose           *)
(* ListingKey is encode(k).                                                 *)
C16_RoundTrip ==
  /\ (call.set = "Property" /\ call.route = "list" /\ Answered(200)) =>
       \A i \in 1..Len(res.value) :
         Prop(res.value[i].props, <<"L", "i", "s", "t", "i", "n", "g", "K", "e", "y">>) =
           encodeListingKey(Prop(queries[1].recordset[i], <<"I", "D", "C", "P", "R", "O", "P", "E", "R", "T", "Y", "I", "D">>))
  /\ (call.set = "Property" /\ call.route = "get" /\ Accepted) =>
       \A k \in Encoded(stripQuotes(call.key)) :
         /\ queries # <<>> => Prop(queries[1].params, <<"k", "e", "y", "V", "a", "l", "u", "e">>) = k
         /\ (res.sent /\ RejectedCalls = {}) =>
              /\ Answered(200)
              /\ Prop(res.value[1].props, <<"L", "i", "s", "t", "i", "n", "g", "K", "e", "y">>) = encodeListingKey(k)

\* GET /Property('<encode(P1)>') was answered
C16_EncodedKey ==
  /\ call.set = "Property" /\ call.route = "get"
  /\ Encoded(stripQuotes(call.key)) # {}
  /\ res.sent

\* the parents an expansion works on: the entities of the data recordset of
\* a list, and the entity of its first row for a get
Parents ==
  LET rows == queries[1].recordset
      n == IF call.route = "get" THEN Min(1, Len(rows)) ELSE Len(rows)
  IN [k \in 1..n |-> transform(call.set, rows[k])]
\* the foreign keys of the parents that are not null (or missing)
NonNullKeys(nav) ==
  {Prop(Parents[k].props, nav.foreignKey) : k \in 1..Len(Parents)}
    \ {JsNull, JsUndefined}
\* the foreign keys of the parents that are truthy: not null, 0 or ''
TruthyKeys(nav) == {key \in NonNullKeys(nav) : Truthy(key)}
\* what C17 says of one expansion, for the keys that are looked up
ExpansionIs(nav, keys) ==
  LET calls == CallsOf(nav.slot)
      requested == includes(handler.expansions,
                            IF nav.slot = "ListAgent" THEN <<"L", "i", "s", "t", "A", "g", "e", "n", "t">>
                            ELSE <<"L", "i", "s", "t", "O", "f", "f", "i", "c", "e">>)
  IN /\ Cardinality(calls) <= 1
     /\ \A i \in calls :
          /\ Contains(queries[i].sql, <<"F", "R", "O", "M", " ">> \o nav.table)
          /\ {queries[i].params[k].value : k \in 1..Len(queries[i].params)} = keys
          /\ Len(queries[i].params) = Cardinality(keys)
          /\ Contains(queries[i].sql,
                      <<" ", "I", "N", " ", "(">> \o Join([k \in 1..Len(queries[i].params) |->
                                           <<"@">> \o queries[i].params[k].name], <<",", " ">>)
                      \o <<")">>)
     /\ (calls # {} \/ Answered(200)) =>
          (calls = {} <=> (~requested \/ keys = {}))
     /\ Answered(200) =>
          /\ Len(res.value) = Len(Parents)
          /\ \A k \in 1..Len(Parents) :
               LET key == Prop(Parents[k].props, nav.foreignKey)
                   rows == IF calls = {} THEN <<>>
                           ELSE queries[CHOOSE i \in calls : TRUE].recordset
                   matching == {j \in 1..Len(rows) : Prop(rows[j], nav.column) = key}
               IN IF matching = {} THEN res.value[k][nav.slot] = <<>>
                  ELSE \E j \in matching :
                         res.value[k][nav.slot] = <<transformRow(rows[j], nav.fieldMap)>>

(* C17: for each of ListAgent and ListOffice the Property driver makes at   *)
(* most one SELECT on the related table, whose IN list holds each distinct  *)
(* foreign key of the parent rows that is not null exactly once, and none   *)
(* when the expansion is not asked for, there are no parent rows or no      *)
(* such keys; in the response every parent whose foreign key is the key of  *)
(* a returned row has that row under the navigation name and every other    *)
(* parent has no navigation property.                                       *)
C17_Expansion ==
  (call.set = "Property" /\ queries # <<>> /\ queries[1].state = "fulfilled") =>
    /\ ExpansionIs(Nav("ListAgent"), NonNullKeys(Nav("ListAgent")))
    /\ ExpansionIs(Nav("ListOffice"), NonNullKeys(Nav("ListOffice")))

(* C17 for truthy keys: the same, where the IN list holds each distinct     *)
(* foreign key that is truthy; a parent whose key is null, 0 or '' is not   *)
(* looked up.                                                               *)
C17_TruthyKeys ==
  (call.set = "Property" /\ queries # <<>> /\ queries[1].state = "fulfilled") =>
    /\ ExpansionIs(Nav("ListAgent"), TruthyKeys(Nav("ListAgent")))
    /\ ExpansionIs(Nav("ListOffice"), TruthyKeys(Nav("ListOffice")))

\* a list with $expand=ListAgent was answered whose rows hold the agent key 0
C17_ZeroKey ==
  /\ call.set = "Property" /\ Answered(200)
  /\ includes(handler.expansions, <<"L", "i", "s", "t", "A", "g", "e", "n", "t">>)
  /\ JsNumber(0) \in NonNullKeys(Nav("ListAgent"))

\* the calls with the order in which the data and the count query settled
\* exchanged
Swapped(qs) == [i \in 1..Len(qs) |-> [qs[i] EXCEPT !.at = qs[3 - i].at]]
\* two outcomes of the handler give the client the same response
SameAnswer(o1, o2) == o1.res = o2.res /\ o1.handler = o2.handler
\* Promise.all of a Property list is awaited and both its calls have settled
BothSettled ==
  /\ handler.pc = "all"
  /\ Len(queries) = 2
  /\ \A i \in 1..2 : queries[i].state # "pending"
\* the expansion calls
ExpansionCalls == CallsOf("ListAgent") \cup CallsOf("ListOffice")
\* what C18 says of the issue of the queries: data and count are in flight
\* together, an expansion query is only made once data and count are
\* fulfilled, and the ListOffice query once the ListAgent query is fulfilled
IssueOrder ==
  /\ queries # <<>> =>
       /\ queries[1].kind = "data"
       /\ plan.hasCount => (Len(queries) >= 2 /\ queries[2].kind = "count")
       /\ handler.pc = "all" => ExpansionCalls = {}
  /\ \A i \in ExpansionCalls :
       \A j \in CallsOf("data") \cup CallsOf("count") :
         j < i /\ queries[j].state = "fulfilled"
  /\ \A i \in CallsOf("ListOffice") :
       \A j \in CallsOf("ListAgent") : j < i /\ queries[j].state = "fulfilled"

(* C18: in a Property list the data and the count query are both issued     *)
(* before either is awaited, they settle in either order and the response   *)
(* is the same for both orders; an expansion query is issued only after the *)
(* data query (and the count query) is fulfilled, and the ListOffice query  *)
(* only after the ListAgent expansion is done.                              *)
C18_EitherOrder ==
  (call.set = "Property" /\ call.route = "list") =>
    /\ IssueOrder
    /\ BothSettled =>
         SameAnswer(Awaited(handler, queries), Awaited(handler, Swapped(queries)))

(* C18 but for two failures: the same, where the response is the same for   *)
(* both orders unless the data and the count query both fail; the response  *)
(* then carries the error of the one that failed first.                     *)
C18_FirstFailure ==
  (call.set = "Property" /\ call.route = "list") =>
    /\ IssueOrder
    /\ (BothSettled /\ Cardinality(RejectedCalls) < 2) =>
         SameAnswer(Awaited(handler, queries), Awaited(handler, Swapped(queries)))
    /\ (BothSettled /\ Cardinality(RejectedCalls) = 2) =>
         Awaited(handler, queries).res = errorHandler(queries[FirstRejectedCall].error)
    /\ (res.sent /\ RejectedCalls # {}) =>
         res = errorHandler(queries[FirstRejectedCall].error)

\* a Property list with $count and both expansions was answered after the
\* count query settled before the data query
C18_CountFirst ==
  /\ call.set = "Property" /\ call.route = "list"
  /\ Answered(200)
  /\ Len(queries) = 4
  /\ queries[2].at < queries[1].at
  /\ CallsOf("ListAgent") = {3}
  /\ CallsOf("ListOffice") = {4}

\* the error a refused request throws before its first query
ThrownError ==
  IF ~Expansions.ok THEN ErrorOf(Expansions.err)
  ELSE ErrorOf(buildQuery(OptionsOf(Resource(call.set), call.query,
                                    IF call.route = "get"
                                      THEN keyOf(call.set, call.key)
                                      ELSE JsUndefined)).err)
(* C19: an error raised while a list or get is served is answered 500 with  *)
(* {error: {code, message}}, the code being the error's own code when it    *)
(* has one and 'ServerError' otherwise: a parse error of $filter, $select,  *)
(* $orderby or $expand, raised before any query of the request is issued,   *)
(* and the failure of a data, count or expansion query.                     *)
C19_ServerError ==
  /\ (Issued /\ ~Accepted) =>
       /\ queries = <<>>
       /\ Answered(500)
       /\ res.error = [code |-> <<"S", "e", "r", "v", "e", "r", "E", "r", "r", "o", "r">>, message |-> ThrownError.message]
  /\ (handler.pc = "done" /\ RejectedCalls # {}) =>
       LET err == queries[FirstRejectedCall].error
       IN /\ Answered(500)
          /\ res.error.message = err.message
          /\ res.error.code = IF err.code = JsUndefined THEN <<"S", "e", "r", "v", "e", "r", "E", "r", "r", "o", "r">>
                              ELSE err.code.s
          /\ res.value = <<>> /\ res.count = JsUndefined
  /\ res.sent => res.status \in {200, 404, 500}
  /\ Answered(200) => (Accepted /\ RejectedCalls = {})

\* an expansion query failed with an error that has a code of its own
C19_ExpansionFails ==
  /\ handler.pc = "done"
  /\ \E i \in ExpansionCalls :
       /\ queries[i].state = "rejected"
       /\ queries[i].error.code = JsString(<<"E", "S", "O", "C", "K", "E", "T">>)
  /\ res.error.code = <<"E", "S", "O", "C", "K", "E", "T">>

(***************************************************************************)
(* Properties of the single-entity routes and of the reshaping of rows.    *)
(***************************************************************************)
\* text ends with part
EndsWith(text, part) ==
  Len(text) >= Len(part) /\ SubSeq(text, Len(text) - Len(part) + 1, Len(text)) = part
\* the get handler is done, its lookup was answered and no query failed
Looked == 
  /\ call.route = "get"
  /\ handler.pc = "done"
  /\ queries # <<>>
  /\ queries[1].state = "fulfilled"
  /\ RejectedCalls = {}

Tokens == tokenizeFilter(call.query.filter.s).tokens
Compiled == parseFilterTokens(Tokens, fieldMap)
\* a list whose $filter the tokenizer and the compiler accepted
Filtered ==
  /\ plan.ok
  /\ call.route = "list"
  /\ Truthy(call.query.filter)
RECURSIVE ValueBearing(_, _)
\* the values of the value-bearing tokens of toks[i..], left to right: of a
\* string, number or datetime token its value, of a function call its string
\* argument wrapped for LIKE
ValueBearing(toks, i) ==
  IF i > Len(toks) THEN <<>>
  ELSE IF toks[i].type \in {"string", "number", "datetime"}
    THEN <<toks[i].value>> \o ValueBearing(toks, i + 1)
  ELSE IF toks[i].type = "function"
    THEN <<JsString(LikePattern(toks[i].value.s, toks[i + 4].value.s))>> \o
         ValueBearing(toks, i + 6)
  ELSE ValueBearing(toks, i + 1)
\* the positions of @ in a text, in ascending order
RECURSIVE AtSigns(_, _)
AtSigns(text, i) ==
  IF i > Len(text) THEN <<>>
  ELSE (IF text[i] = "@" THEN <<i>> ELSE <<>>) \o AtSigns(text, i + 1)

(* C22: parseFilterTokens names its parameters filter0, filter1, ... without *)
(* gaps in the left-to-right order of the value-bearing tokens (string,      *)
(* number, datetime, function call); there are as many params as such        *)
(* tokens, and the i-th placeholder of the sql is @filter<i>, bound to the   *)
(* value of the i-th such token (wrapped in % for contains, startswith and   *)
(* endswith).                                                                *)
C22_ParamNumbering ==
  Filtered =>
    LET values == ValueBearing(Tokens, 1)
        at == AtSigns(Compiled.sql, 1)
    IN /\ Compiled.ok
       /\ plan.params = Compiled.params
       /\ Len(Compiled.params) = Len(values)
       /\ Len(at) = Len(values)
       /\ \A k \in 1..Len(values) :
            LET name == <<"f", "i", "l", "t", "e", "r">> \o IntToString(k - 1)
            IN /\ Compiled.params[k] = Param(name, values[k])
               /\ SubSeq(Compiled.sql, at[k] + 1, at[k] + Len(name)) = name

\* contains(City,'x')1 was compiled: filter0 is '%x%' and filter1 is 1
C22_Witness ==
  /\ Filtered
  /\ Len(plan.params) = 2
  /\ plan.params[1] = Param(<<"f", "i", "l", "t", "e", "r", "0">>, JsString(<<"%", "x", "%">>))
  /\ plan.params[2] = Param(<<"f", "i", "l", "t", "e", "r", "1">>, JsNumber(1))

\* the rows the handlers reshaped so far, each with the field map it was
\* reshaped with: the rows of the data query and of the expansion queries
Reshaped ==
  UNION { { [row |-> queries[i].recordset[k],
             map |-> IF queries[i].kind = "data" THEN Resource(call.set).fieldMap
                     ELSE Nav(queries[i].kind).fieldMap] :
              k \in 1..Len(queries[i].recordset) } :
          i \in {i \in 1..Len(queries) :
                   queries[i].kind # "count" /\ queries[i].state = "fulfilled"} }
\* the columns and the RESO names of a field map
ColumnsOf(map) == {map[k].column : k \in 1..Len(map)}
NameOf(map, column) == map[CHOOSE k \in 1..Len(map) : map[k].column = column].key
\* what the reshape law says of one row and its result
ReshapeLaw(row, map, result) ==
  LET mapped == {k \in 1..Len(row) : row[k].name \in ColumnsOf(map)}
  IN /\ Len(result) = Cardinality(mapped)
     /\ {result[k].name : k \in 1..Len(result)} = {NameOf(map, row[k].name) : k \in mapped}
     /\ \A k \in mapped : Prop(result, NameOf(map, row[k].name)) = row[k].value
     /\ \A k \in 1..Len(result) : \E j \in mapped :
          result[k] = Field(NameOf(map, row[j].name), row[j].value)

(* C23: transformRow returns an object whose keys are exactly the RESO      *)
(* names of the columns of the row that are in the reverse field map, each  *)
(* with the value of the row unchanged (null stays null); columns that are  *)
(* not in the map are dropped and no other key is added.                    *)
C23_ReshapeLaw ==
  /\ \A r \in Reshaped : ReshapeLaw(r.row, r.map, transformRow(r.row, r.map))
  /\ (call.set # "Property" /\ call.route = "list" /\ Answered(200)) =>
       /\ Len(res.value) = Len(queries[1].recordset)
       /\ \A k \in 1..Len(res.value) :
            ReshapeLaw(queries[1].recordset[k], Resource(call.set).fieldMap,
                       res.value[k].props)

\* a Property row with a null office key was reshaped, and an agent row with
\* a column the member map does not know was attached without it
C23_Witness ==
  /\ call.set = "Property" /\ Answered(200)
  /\ \E r \in Reshaped : Prop(r.row, <<"I", "D", "C", "L", "I", "S", "T", "O", "F", "F", "I", "C", "E", "K", "E", "Y">>) = JsNull
  /\ \E r \in Reshaped :
       /\ r.map = memberFieldMap
       /\ Prop(r.row, <<"C", "I", "T", "Y">>) # JsUndefined
  /\ \E k \in 1..Len(res.value) :
       /\ res.value[k].ListAgent # <<>>
       /\ Prop(res.value[k].ListAgent[1], <<"M", "e", "m", "b", "e", "r", "K", "e", "y">>) = JsNumber(7)
       /\ Len(res.value[k].ListAgent[1]) = 1

\* the key column of the entity set of the request
KeyColumn == Lookup(Resource(call.set).fieldMap, Resource(call.set).KEY_FIELD)
\* the data query of a get restricts the key column to @keyValue, bound to
\* the key of the path, and the entity of a 200 answer is a row of that key
KeyPredicate ==
  /\ queries # <<>> =>
       /\ Lines(queries[1].sql)[4] = <<"W", "H", "E", "R", "E", " ">> \o KeyColumn \o <<" ", "=", " ", "@", "k", "e", "y", "V", "a", "l", "u", "e">>
       /\ queries[1].params = <<Param(<<"k", "e", "y", "V", "a", "l", "u", "e">>, keyOf(call.set, call.key))>>
  /\ Answered(200) =>
       Prop(queries[1].recordset[1], KeyColumn) = keyOf(call.set, call.key)

(* C24: every get on Property, Member or Office, for every path key the     *)
(* route can match, the empty quoted key included, issues a data query      *)
(* whose WHERE clause restricts the key column to @keyValue; a get never    *)
(* returns a row that was selected without the key predicate.               *)
C24_KeyPredicate ==
  (call.route = "get" /\ Accepted /\ Issued) => KeyPredicate

(* C24 for keys that are not empty: the same for every path key that is     *)
(* not empty once its quotes are stripped; for the empty quoted key the     *)
(* data query has no key predicate.                                         *)
C24_NonEmptyKey ==
  (call.route = "get" /\ Accepted /\ Issued) =>
    IF stripQuotes(call.key) # <<>> THEN KeyPredicate
    ELSE /\ queries # <<>>
         /\ ~Contains(queries[1].sql, <<"@", "k", "e", "y", "V", "a", "l", "u", "e">>)
         /\ queries[1].params = <<>>

\* GET /Property('') was answered 200 with a row
C24_EmptyKey ==
  /\ call.route = "get" /\ call.set = "Property"
  /\ stripQuotes(call.key) = <<>>
  /\ Answered(200)
  /\ Len(res.value) = 1

\* the rows of the entity set whose key is the key of the path
Existing ==
  {k \in 1..Len(Rows(call.set)) :
     Prop(Rows(call.set)[k], KeyColumn) = keyOf(call.set, call.key)}
\* a get whose key is the key of a row was answered and no query failed
FoundKey ==
  /\ call.route = "get"
  /\ Existing # {}
  /\ res.sent
  /\ RejectedCalls = {}
\* the answer is 200 with the row of the key
AnswersRow ==
  /\ Answered(200)
  /\ Len(res.value) = 1
  /\ \E k \in Existing :
       res.value[1].props = transform(call.set, Rows(call.set)[k]).props

(* C25: a get whose key is the key of an existing row is answered 200 with  *)
(* that row for every $top and $skip of the request; pagination options     *)
(* never turn the lookup of an existing entity into a 404.                  *)
C25_PagedLookup ==
  (FoundKey /\ Accepted) => AnswersRow

(* C25 without an offset: the same for every request whose $skip gives the  *)
(* offset 0; with a positive offset the answer is 404.                      *)
C25_NoOffset ==
  (FoundKey /\ Accepted) =>
    IF plan.skip = 0 THEN AnswersRow
    ELSE Answered(404) /\ res.error.code = <<"N", "o", "t", "F", "o", "u", "n", "d">>

\* GET /Member(7)?$skip=1 was answered
C25_Skipped ==
  /\ FoundKey
  /\ call.set = "Member"
  /\ call.query.skip = JsString(<<"1">>)

\* the characters of a T-SQL variable name after its first @
NameChars == WordChars \cup {"@", "#", "$"}
RECURSIVE Placeholders(_, _)
\* the names of the @-placeholders that can be read out of text[i..]: each
\* starts at an @ and runs as far as the characters of a name go
Placeholders(text, i) ==
  IF i > Len(text) THEN {}
  ELSE IF text[i] = "@"
    THEN LET end == ScanWhile(text, i + 1, NameChars)
         IN {SubSeq(text, i + 1, end - 1)} \cup Placeholders(text, end)
  ELSE Placeholders(text, i + 1)
\* the names of the params
ParamNames(params) == {params[k].name : k \in 1..Len(params)}
RECURSIVE Delimited(_, _)
\* every value-bearing token of toks[i..] is the last token or is followed
\* by an operator, a logical word or a parenthesis
Delimited(toks, i) ==
  IF i > Len(toks) THEN TRUE
  ELSE LET next == IF toks[i].type = "function" THEN i + 6 ELSE i + 1
           bears == toks[i].type \in {"string", "number", "datetime", "function"}
       IN /\ bears => TypeAt(toks, next) \in {"undefined", "operator", "logical", "paren"}
          /\ Delimited(toks, next)

(* C26: for every token sequence parseFilterTokens accepts, the set of the  *)
(* @-placeholder names that can be read out of the sql equals the key set   *)
(* of params: each placeholder is delimited from the text of the            *)
(* neighbouring tokens and names the parameter of its token.                *)
C26_PlaceholdersAreParams ==
  Filtered => Placeholders(Compiled.sql, 1) = ParamNames(Compiled.params)

(* C26 for delimited values: the same for the accepted token sequences in   *)
(* which every value-bearing token is the last one or is followed by an     *)
(* operator, a logical word or a parenthesis; in every other accepted       *)
(* sequence a placeholder runs into the text of the next token and names no *)
(* parameter.                                                               *)
C26_Delimited ==
  Filtered =>
    (Delimited(Tokens, 1) <=>
       Placeholders(Compiled.sql, 1) = ParamNames(Compiled.params))

\* 'x'City eq 1 was compiled to @filter0CITY = @filter1
C26_RunTogether ==
  /\ Filtered
  /\ Compiled.sql = <<"@", "f", "i", "l", "t", "e", "r", "0", "C", "I", "T", "Y", " ", "=", " ", "@", "f", "i", "l", "t", "e", "r", "1">>
  /\ ParamNames(plan.params) = {<<"f", "i", "l", "t", "e", "r", "0">>, <<"f", "i", "l", "t", "e", "r", "1">>}

\* the Property entities of a 200 answer, each with the row it was made from
Entities ==
  IF call.set = "Property" /\ Answered(200)
    THEN {[entity |-> res.value[k], row |-> queries[1].recordset[k]] :
            k \in 1..Len(res.value)}
    ELSE {}
\* what C27 says of the Media of an entity made from a row with these photos
MediaIs(e, expected) ==
  /\ Len(e.entity.Media) = Len(expected)
  /\ \A k \in 1..Len(expected) :
       /\ e.entity.Media[k].MediaURL = expected[k]
       /\ e.entity.Media[k].Order = k
       /\ e.entity.Media[k].ResourceRecordKey = Prop(e.entity.props, <<"L", "i", "s", "t", "i", "n", "g", "K", "e", "y">>)
\* the <URL> entries of the photo column of the rows, in document order
PhotosOf(row) ==
  IF Prop(row, <<"I", "D", "C", "P", "R", "O", "P", "E", "R", "T", "Y", "I", "D">>) = JsString(<<"P", "1">>) THEN << <<"u", "1">>, <<"u", "2">> >>
  ELSE <<>>

(* C27: every Property entity of a list or get has a Media array and no     *)
(* _PhotosXML key, whatever the photo column of the row holds (absent,      *)
(* null, empty string or XML); Media is empty when the column is absent or  *)
(* empty, and lists the <URL> entries in document order with Order 1, 2,    *)
(* ... otherwise.                                                           *)
C27_MediaOnly ==
  \A e \in Entities :
    /\ MediaIs(e, PhotosOf(e.row))
    /\ Prop(e.entity.props, <<"_", "P", "h", "o", "t", "o", "s", "X", "M", "L">>) = JsUndefined
    /\ \A k \in 1..Len(e.entity.props) : e.entity.props[k].name # <<"_", "P", "h", "o", "t", "o", "s", "X", "M", "L">>

(* C27 but for the key: every Property entity has a Media array as C27      *)
(* says; it has no _PhotosXML key when the photo column is absent or holds  *)
(* XML, and keeps _PhotosXML with the value of the column when that is null *)
(* or the empty string.                                                     *)
C27_FalsyKept ==
  \A e \in Entities :
    LET photos == Prop(e.row, <<"P", "R", "O", "P", "E", "R", "T", "Y", "P", "H", "O", "T", "O", "S">>)
        kept == {k \in 1..Len(e.entity.props) :
                   e.entity.props[k].name = <<"_", "P", "h", "o", "t", "o", "s", "X", "M", "L">>}
    IN /\ MediaIs(e, PhotosOf(e.row))
       /\ IF photos \in {JsNull, Empty}
            THEN \E k \in kept : e.entity.props[k].value = photos
            ELSE kept = {}

\* a list was answered with the row of two photos and the row whose photo
\* column is null
C27_NullPhotos ==
  /\ \E e \in Entities : Len(e.entity.Media) = 2
  /\ \E e \in Entities : Prop(e.row, <<"P", "R", "O", "P", "E", "R", "T", "Y", "P", "H", "O", "T", "O", "S">>) = JsNull

(***************************************************************************)
(* Properties of whole requests.                                           *)
(***************************************************************************)
PropertyList == call.set = "Property" /\ call.route = "list"
\* the data or the count query of the list failed
ListFailure == \E i \in RejectedCalls : queries[i].kind \in {"data", "count"}

(* C28: every Property list request produces exactly one response under     *)
(* every interleaving of success and failure of the data and the count      *)
(* query: a response is sent, and once sent it is never replaced; if either *)
(* query fails the response is the error response, also when the other      *)
(* query completes later, and no expansion query is issued after a failure. *)
C28_OneResponse ==
  /\ PropertyList ~> res.sent
  /\ [][(PropertyList /\ res.sent) => res' = res]_vars
  /\ []((PropertyList /\ ListFailure) =>
          /\ ExpansionCalls = {}
          /\ res.sent => /\ Answered(500)
                         /\ res = errorHandler(queries[FirstRejectedCall].error))

\* the data query failed, the error response was sent, and the count query
\* completed after that
C28_LateCompletion ==
  /\ PropertyList
  /\ Len(queries) = 2
  /\ queries[1].state = "rejected"
  /\ Answered(500)
  /\ handler.settled = 1
  /\ queries[2].state = "fulfilled"

(***************************************************************************)
(* A client that follows @odata.nextLink over a table of a fixed size.     *)
(***************************************************************************)
MaxTotal == 5      \* rows the table of a chain of pages holds
\* req.query of a GET of the link: the pairs after '?', decoded
QueryOfLink(url) ==
  CHOOSE query \in
    { LET value(name) == IF \E p \in pairs : p.name = name
                           THEN JsString((CHOOSE p \in pairs : p.name = name).value)
                           ELSE JsUndefined
      IN Query(value(<<"$", "t", "o", "p">>), value(<<"$", "s", "k", "i", "p">>), value(<<"$", "c", "o", "u", "n", "t">>),
               value(<<"$", "s", "e", "l", "e", "c", "t">>), value(<<"$", "f", "i", "l", "t", "e", "r">>), value(<<"$", "o", "r", "d", "e", "r", "b", "y">>)) :
        pairs \in {PairsOf(SubSeq(url, IndexOf(url, "?") + 1, Len(url)))} } : TRUE

\* list requests with $count=true: $top and $skip absent, zero, negative,
\* with trailing text, and around the size of the table
ChainCalls ==
  { Call("list", <<>>, Query(t, s, True, sel, f, JsUndefined)) :
      t \in {JsUndefined, JsString(<<"0">>), JsString(<<"1">>), JsString(<<"2">>),
             JsString(<<"3">>), JsString(<<"2", "x">>)},
      s \in {JsUndefined, JsString(<<"0">>), JsString(<<"1">>), JsString(<<"-", "1">>),
             JsString(<<"7">>)},
      sel \in {JsUndefined, JsString(<<"C", "i", "t", "y", ",", "L", "i", "s", "t", "P", "r", "i", "c", "e">>)},
      f \in {JsUndefined, JsString(<<"C", "i", "t", "y", " ", "e", "q", " ", "'", "a", " ", "b", "'">>)} }

listPage_Mutant ==
  /\ call.route = "list"
  /\ ~link.called
  /\ \E built \in {buildQuery(Options(call.query, JsUndefined))} :
       /\ plan' = built
       /\ link' = [link EXCEPT
                     !.called = TRUE,
                     !.url = IF built.ok /\ built.hasCount
                               THEN nextLinkBuilder(BaseUrl, call.query, 0,
                                                    built.top, link.total)
                               ELSE JsNull]
  /\ UNCHANGED <<call, driverVars, authVars>>
\* list(req, res, next) when its queries are fulfilled and the count query
\* gives link.total: the '@odata.nextLink' of its response, if any
listPage ==
  /\ call.route = "list"
  /\ ~link.called
  /\ \E built \in {buildQuery(Options(call.query, JsUndefined))} :
       /\ plan' = built
       /\ link' = [link EXCEPT
                     !.called = TRUE,
                     !.url = IF built.ok /\ built.hasCount
                               THEN nextLinkBuilder(BaseUrl, call.query, built.skip,
                                                    built.top, link.total)
                               ELSE JsNull]
  /\ UNCHANGED <<call, driverVars, authVars>>
\* the client requests the '@odata.nextLink' of the response it got
follow ==
  /\ link.called
  /\ Truthy(link.url)
  /\ call' = [call EXCEPT !.query = QueryOfLink(link.url.s)]
  /\ link' = [link EXCEPT !.called = FALSE]
  /\ UNCHANGED <<plan, driverVars, authVars>>

InitChain ==
  /\ call \in ChainCalls
  /\ plan = NoPlan
  /\ \E total \in 0..MaxTotal : link = [NoLink EXCEPT !.total = total]
  /\ handler = NoHandler
  /\ queries = <<>>
  /\ res = Unanswered
  /\ CLIENT_ID = Undefined
  /\ CLIENT_SECRET = Undefined
  /\ pool = "null"
  /\ tokens = EmptyTable
  /\ refreshTokens = EmptyTable
  /\ now = 0
  /\ ticks = 0
  /\ issued = {}
  /\ req = IdleReq
  /\ sweeper = IdleSweeper
  /\ expiredSeen = {}
  /\ boot = NotStarted
NextChain ==
  \/ listPage
  \/ follow
\* every request is answered and the client goes on following the link
SpecChainFair == InitChain /\ [][NextChain]_vars /\ WF_vars(NextChain)

\* the response of the last request: it carries a link, or it is the last page
Paged == link.called /\ plan.ok
LastPage == Paged /\ link.url = JsNull
\* a page of the chain that is not its first is answered
NextPageAnswered == ~link.called /\ link'.called /\ link.url # JsNull

(* C29: following @odata.nextLink from any Property list request with        *)
(* $count=true against a fixed total reaches a response without a link; each *)
(* page uses the top of the page before it and a skip that is larger by      *)
(* exactly top; a page carries a link when and only when rows lie beyond it. *)
C29_ChainOfPages ==
  /\ <>[]LastPage
  /\ [][NextPageAnswered => /\ plan'.ok
                            /\ plan'.top = plan.top
                            /\ plan'.skip = plan.skip + plan.top]_vars
  /\ [](Paged => (link.url = JsNull <=> plan.skip + plan.top >= link.total))
\* the third page of a chain was answered and one more follows
C29_ThirdPage ==
  /\ Paged
  /\ plan.top = 1
  /\ plan.skip = 3
  /\ link.total = 5
  /\ Truthy(link.url)
  /\ call.query.filter = JsString(<<"C", "i", "t", "y", " ", "e", "q", " ", "'", "a", " ", "b", "'">>)

(***************************************************************************)
(* Start-up: Promise.all([db.connect(), auth.init()]), then listen, or     *)
(* exit with status 1.                                                     *)
(***************************************************************************)
serviceVars == <<CLIENT_ID, CLIENT_SECRET, tokens, refreshTokens, now, ticks,
                 issued, req, sweeper, expiredSeen>>
requestVars == <<call, plan, link, driverVars>>
\* the process runs: process.exit was not called
Running == boot.exitCode = -1
\* a promise of the start-up settles: the first rejection is the one
\* Promise.all rejects with
Settles(b, promise, outcome) ==
  [b EXCEPT ![promise] = outcome,
            !.settled = @ + 1,
            !.rejectedFirst = IF outcome = "rejected" /\ @ = "none" THEN promise ELSE @]

authInit_Mutant ==
  /\ Running
  /\ boot.pc = "main"
  /\ IF boot.PG_CONNECTION_STRING = "undefined"
       THEN /\ boot' = Settles([boot EXCEPT !.pc = "all", !.connect = "pending"],
                               "init", "fulfilled")
            /\ pool' = pool
       ELSE /\ boot' = [boot EXCEPT !.pc = "all", !.connect = "pending",
                                    !.init = "pending", !.awaits = 4]
            /\ pool' = "open"
  /\ UNCHANGED <<serviceVars, requestVars>>
\* Promise.all([db.connect(), auth.init()]): db.connect() is called, and
\* auth.init() runs tokenStore.init() up to its first await; without
\* PG_CONNECTION_STRING that returns false and auth.init() throws
authInit ==
  /\ Running
  /\ boot.pc = "main"
  /\ IF boot.PG_CONNECTION_STRING = "undefined"
       THEN /\ boot' = Settles([boot EXCEPT !.pc = "all", !.connect = "pending"],
                               "init", "rejected")
            /\ pool' = pool
       ELSE /\ boot' = [boot EXCEPT !.pc = "all", !.connect = "pending",
                                    !.init = "pending", !.awaits = 4]
            /\ pool' = "open"
  /\ UNCHANGED <<serviceVars, requestVars>>
\* a pool.query of tokenStore.init (two CREATE TABLE, two CREATE INDEX) is
\* fulfilled; after the last one init returns true
storeQueryDone ==
  /\ Running
  /\ boot.init = "pending"
  /\ boot' = IF boot.awaits = 1
               THEN Settles([boot EXCEPT !.awaits = 0], "init", "fulfilled")
               ELSE [boot EXCEPT !.awaits = @ - 1]
  /\ UNCHANGED <<pool, serviceVars, requestVars>>
\* a pool.query of tokenStore.init is rejected, and so is auth.init()
storeQueryFails ==
  /\ Running
  /\ boot.init = "pending"
  /\ boot' = Settles(boot, "init", "rejected")
  /\ UNCHANGED <<pool, serviceVars, requestVars>>
\* db.connect() is fulfilled
connected ==
  /\ Running
  /\ boot.connect = "pending"
  /\ boot' = Settles(boot, "connect", "fulfilled")
  /\ UNCHANGED <<pool, serviceVars, requestVars>>
\* db.connect() is rejected
connectFails ==
  /\ Running
  /\ boot.connect = "pending"
  /\ boot' = Settles(boot, "connect", "rejected")
  /\ UNCHANGED <<pool, serviceVars, requestVars>>
\* .then(() => { app.listen(process.env.PORT || 8080, ...) })
listen ==
  /\ Running
  /\ boot.pc = "all"
  /\ boot.connect = "fulfilled"
  /\ boot.init = "fulfilled"
  /\ boot' = [boot EXCEPT !.pc = "done", !.listening = TRUE]
  /\ UNCHANGED <<pool, serviceVars, requestVars>>
\* .catch((err) => { ...; process.exit(1) })
exit ==
  /\ Running
  /\ boot.pc = "all"
  /\ boot.rejectedFirst # "none"
  /\ boot' = [boot EXCEPT !.pc = "done", !.exitCode = 1]
  /\ UNCHANGED <<pool, serviceVars, requestVars>>

\* the process starts with or without PG_CONNECTION_STRING and the OAuth
\* client settings, over tables a previous run may have left rows in
InitStartup ==
  /\ call = NoCall
  /\ plan = NoPlan
  /\ link = NoLink
  /\ handler = NoHandler
  /\ queries = <<>>
  /\ res = Unanswered
  /\ CLIENT_ID \in {Undefined, "test-client"}
  /\ CLIENT_SECRET \in {Undefined, "test-secret"}
  /\ pool = "null"
  /\ tokens \in LeftOver(0, TOKEN_EXPIRY)
  /\ refreshTokens \in LeftOver(0, REFRESH_TOKEN_EXPIRY)
  /\ now = 0
  /\ ticks = 0
  /\ issued = {0}
  /\ req = IdleReq
  /\ sweeper = IdleSweeper /\ expiredSeen = {}
  /\ boot \in {[NotStarted EXCEPT !.PG_CONNECTION_STRING = s] :
                 s \in {"undefined", "postgres://db"}}
NextStartup ==
  \/ authInit
  \/ storeQueryDone
  \/ storeQueryFails
  \/ connected
  \/ connectFails
  \/ listen
  \/ exit
\* the callbacks of a settled Promise.all run
SpecStartupFair ==
  InitStartup /\ [][NextStartup]_vars /\ WF_vars(listen) /\ WF_vars(exit)

StartupFailed == boot.connect = "rejected" \/ boot.init = "rejected"
StoreReady == boot.PG_CONNECTION_STRING # "undefined" /\ pool = "open"

(* C30: the server listens only after the database connection and the      *)
(* token-store initialisation have both succeeded, the store being          *)
(* configured; when either fails, the process exits with status 1, and it   *)
(* never listens.                                                           *)
C30_ListenAfterBoth ==
  /\ [](boot.listening => /\ boot.connect = "fulfilled"
                          /\ boot.init = "fulfilled"
                          /\ StoreReady)
  /\ [](StartupFailed => ~boot.listening)
  /\ StartupFailed ~> (boot.exitCode = 1 /\ ~boot.listening)
  /\ [](boot.exitCode \in {-1, 1})
\* the store is not configured, the database connects, and the process has
\* exited
C30_NotConfigured ==
  /\ boot.PG_CONNECTION_STRING = "undefined"
  /\ boot.connect = "fulfilled"
  /\ boot.init = "rejected"
  /\ boot.exitCode = 1
  /\ ~boot.listening

=============================================================================
